---- MODULE Spec2Model ----
(***************************************************************************)
(* Marker detection pipeline of the MarkerEngine backend:                  *)
(*   services/orchestration_service.py      (OrchestrationService)         *)
(*   services/orchestration_service_di.py   (OrchestrationServiceDI)       *)
(*   services/marker_service.py             (MarkerService)                *)
(*   services/activation_rules_engine.py    (ActivationRulesEngine)        *)
(*   services/nlp_service.py                (NlpService implementations)   *)
(*   infrastructure/cache/memory_cache.py   (MemoryCache)                  *)
(*                                                                         *)
(* Confidences are integers in units of 10^-6 (Conf(90) is 0.9).  Texts    *)
(* are sequences of one-character strings; a blank separates words.        *)
(***************************************************************************)
EXTENDS Integers, Sequences, FiniteSets, TLC

VARIABLES
    pc,               \* position of the current analyze call
    di,               \* TRUE: OrchestrationServiceDI, FALSE: OrchestrationService
    provider,         \* the injected ICacheProvider: "memory" or "redis"
    text,             \* context.text
    schema_id,        \* context.schema_id
    detected_markers, \* context.detected_markers
    metadata,         \* context.metadata
    tokens,           \* context.tokens
    sentences,        \* context.sentences
    results,          \* what analyze returned (None while running or raised)
    cache,            \* MemoryCache._cache / the redis key space
    now,              \* the clock, in units of the cache TTL grid
    runs,             \* analyze calls started so far
    trace,            \* phases the current call has entered, in order
    faults,           \* collaborator failures the current call has met
    held,           \* the live cache entry under the key when the call began
    expected,         \* valid[key] as it was when the current call began
    calls,            \* collaborator calls made by the current call
    valid,            \* per key: the last success envelope finalized and not
                      \* since deleted, cleared or expired
    prev_markers,     \* detected_markers before the last _merge_markers call
    last_in,          \* argument of the last _merge_markers call, if any
    repeated,         \* the last call merged the list of the call before it
    tasks,            \* analyze_batch: the state of each gathered analyze call
    phase_timings,    \* self._phase_timings: per key, the run that wrote it
    checked_marker,   \* check_activation: the marker argument
    checked_ids,      \* check_activation: the detected_marker_ids argument
    sentiment_scores, \* context.sentiment_scores
    rule_result,      \* check_activation: what the rule handler returned
    outcome,          \* check_activation: what it returned
    atomic_docs,      \* initial_scan: the documents find() returned
    complex_docs,     \* contextual_rescan: the documents find() returned
    activated_markers, \* contextual_rescan: the list it returned, if it has
    default_config,   \* DEFAULT_CONFIG of the time series aggregator
    agg_marker,       \* aggregate_events: the marker argument
    agg_events,       \* aggregate_events: the events argument
    filtered,         \* aggregate_events: the events left by the window
    agg_result,       \* aggregate_events: what it returned, or that it raised
    l1_cache,         \* LayeredCache.l1_cache: the MemoryCache entry of the key
    l2_cache,         \* LayeredCache.l2_cache: the Redis entry of the key
    cache_ops,        \* the get, set and delete calls begun on the key
    last_write        \* the set or delete call that completed last

ctx_vars   == <<text, schema_id, detected_markers, metadata, tokens, sentences>>
run_vars   == <<pc, results, runs, trace, faults, held, expected, calls>>
cache_vars == <<cache, now, valid>>
cfg_vars   == <<di, provider>>
merge_vars == <<prev_markers, last_in, repeated>>
batch_vars == <<tasks, phase_timings>>
engine_vars == <<checked_marker, checked_ids, sentiment_scores, rule_result,
                 outcome>>
scan_vars == <<atomic_docs, complex_docs, activated_markers>>
agg_vars == <<default_config, agg_marker, agg_events, filtered, agg_result>>
layered_vars == <<l1_cache, l2_cache, cache_ops, last_write>>
aux_vars == <<scan_vars, agg_vars, layered_vars>>
vars == <<ctx_vars, run_vars, cache_vars, cfg_vars, merge_vars, batch_vars,
          engine_vars, aux_vars>>

\* Python None, where the other values are strings
None == "None"

\* an optional value of another type: Nil, or Some(v)
Nil == <<>>
Some(v) == <<v>>

\* p percent as a confidence: Conf(90) is 0.9
Conf(p) == p * 10000

Max(a, b) == IF a >= b THEN a ELSE b
Min(a, b) == IF a <= b THEN a ELSE b

Range(s) == {s[i] : i \in DOMAIN s}

(***************************************************************************)
(* Bounds of the model                                                     *)
(***************************************************************************)
MaxNew == 2       \* longest new_markers list handed to _merge_markers
MaxMerges == 2    \* _merge_markers calls on one context
MaxRuns == 1      \* analyze calls followed step by step, all faults allowed
MaxCalls == 2     \* analyze calls on one caching service instance
MaxTime == 2      \* clock ticks

(***************************************************************************)
(* Detected markers (the dicts of context.detected_markers)                *)
(***************************************************************************)
\* a detected-marker dict.  Keys a dict does not carry hold <<>>
\* (examples_matched, components) or FALSE (nlp_enhanced); the keys
\* confidence_updated and contextual_boost are absent until the first
\* update, which sets confidence_updated.
MarkerDict(id, conf, phase, examples, components, enhanced) ==
    [marker_id |-> id, confidence |-> conf, detection_phase |-> phase,
     examples_matched |-> examples, components |-> components,
     nlp_enhanced |-> enhanced,
     confidence_updated |-> FALSE, contextual_boost |-> 0]

DetectedMarker(id, conf, phase) == MarkerDict(id, conf, phase, <<>>, <<>>, FALSE)

\* dict.get('confidence', 0.5); both scans always set the key
GetConfidence(m) == m.confidence

Ids(markers) == {markers[i].marker_id : i \in DOMAIN markers}

\* the inner loop of _merge_markers for one new marker whose id is known:
\* every existing entry of that id takes the new confidence if it is
\* strictly greater, and records the delta
UpdateExisting_GE(markers, marker) ==
    [i \in DOMAIN markers |->
        IF markers[i].marker_id = marker.marker_id
           /\ GetConfidence(marker) >= GetConfidence(markers[i])
        THEN [markers[i] EXCEPT
                 !.confidence = GetConfidence(marker),
                 !.confidence_updated = TRUE,
                 !.contextual_boost =
                     GetConfidence(marker) - GetConfidence(markers[i])]
        ELSE markers[i]]

UpdateExisting(markers, marker) ==
    [i \in DOMAIN markers |->
        IF markers[i].marker_id = marker.marker_id
           /\ GetConfidence(marker) > GetConfidence(markers[i])
        THEN [markers[i] EXCEPT
                 !.confidence = GetConfidence(marker),
                 !.confidence_updated = TRUE,
                 !.contextual_boost =
                     GetConfidence(marker) - GetConfidence(markers[i])]
        ELSE markers[i]]

\* one iteration of the loop of _merge_markers; existing_ids is the set
\* computed once before the loop
MergeOne(markers, existing_ids, marker) ==
    IF marker.marker_id \notin existing_ids
    THEN Append(markers, [marker EXCEPT !.detection_phase = "contextual"])
    ELSE UpdateExisting(markers, marker)

RECURSIVE MergeLoop(_, _, _, _)
MergeLoop(markers, existing_ids, new_markers, k) ==
    IF k > Len(new_markers) THEN markers
    ELSE MergeLoop(MergeOne(markers, existing_ids, new_markers[k]),
                   existing_ids, new_markers, k + 1)

\* _merge_markers(context, new_markers): the new value of
\* context.detected_markers.  The dicts appended are the dicts of
\* new_markers; an update only raises a confidence to one that the list
\* already holds for that id, so merging by value gives the same entries.
MergeMarkers(markers, new_markers) ==
    MergeLoop(markers, Ids(markers), new_markers, 1)

(***************************************************************************)
(* Text                                                                    *)
(***************************************************************************)
\* str.lower(), character by character
LowerChar(c) == IF c = "A" THEN "a" ELSE IF c = "B" THEN "b" ELSE c
Lower(s) == [i \in DOMAIN s |-> LowerChar(s[i])]

\* p in s (substring)
Contains(s, p) ==
    \E i \in 0..(Len(s) - Len(p)) : \A j \in 1..Len(p) : s[i + j] = p[j]

\* str.split(): the maximal runs of non-blank characters
RECURSIVE SplitFrom(_, _, _)
SplitFrom(s, k, word) ==
    IF k > Len(s)
    THEN IF word = <<>> THEN <<>> ELSE <<word>>
    ELSE IF s[k] = " "
         THEN IF word = <<>> THEN SplitFrom(s, k + 1, <<>>)
              ELSE <<word>> \o SplitFrom(s, k + 1, <<>>)
         ELSE SplitFrom(s, k + 1, Append(word, s[k]))
Split(s) == SplitFrom(s, 1, <<>>)

\* the texts analysed
Texts ==
    { <<"a">>,
      <<"a", " ", "b">>,
      <<"A", " ", "b", " ", "?">> }

(***************************************************************************)
(* Marker definition store (the documents of the markers collection).      *)
(* An id is the sequence of its "_"-separated parts: <<"S","A">> is S_A.   *)
(***************************************************************************)
S_A == <<"S", "A">>
S_B == <<"S", "B">>
S_BAD == <<"S", "BAD">>
A_Q == <<"A", "Q">>
C_AB == <<"C", "AB">>
MM_ANY == <<"MM", "ANY">>

\* a marker without activation rule
NoActivation == [type |-> None]

\* pattern: the list of patterns (a str pattern is the list of it), <<>>:
\* no pattern; signal: the list of frame.signal; composed_of Nil: None
MarkerDoc(id, schema, examples, pattern, signal, composed_of, activation) ==
    [_id |-> id, schema_id |-> schema, examples |-> examples,
     pattern |-> pattern, signal |-> signal,
     composed_of |-> composed_of, activation |-> activation]

\* the collection, in the order find() returns it; _id is unique
Store ==
    << MarkerDoc(S_A, "s1", << <<"a">> >>, <<>>, << <<"z">> >>, Nil,
                 NoActivation),
       MarkerDoc(S_B, "s1", << <<"b">>, <<"a", " ", "b">> >>, << <<"b">> >>,
                 << <<"z">> >>, Nil, NoActivation),
       MarkerDoc(S_BAD, "s1", << >>, <<>>, << <<"z">> >>, Nil, NoActivation),
       MarkerDoc(A_Q, "default", << <<"?">> >>, <<>>, << <<"c">> >>, Nil,
                 NoActivation),
       MarkerDoc(C_AB, "s1", << <<"x">> >>, <<>>, << <<"z">> >>,
                 Some(<<S_A, S_B>>), [type |-> "ALL"]),
       MarkerDoc(MM_ANY, "s1", << <<"x">> >>, <<>>, << <<"z">> >>,
                 Some(<<S_A, S_B>>), [type |-> "ANY"]) >>

\* marker_collection.find(query): _id matches ^(p1_|p2_), and the schema
\* filter applies only when schema_id is truthy
Find(prefixes, schema) ==
    LET Match(doc) == /\ Len(doc._id) >= 2
                      /\ doc._id[1] \in prefixes
                      /\ (schema \in {None, ""} \/ doc.schema_id = schema)
    IN SelectSeq(Store, Match)

\* Marker(**marker_data): examples needs at least one entry
ValidMarker(doc) == Len(doc.examples) >= 1

(***************************************************************************)
(* MarkerService, phase 1                                                  *)
(***************************************************************************)
\* _get_matched_examples
MatchedExamples(marker, txt) ==
    LET Hit(e) == Contains(Lower(txt), Lower(e))
    IN SelectSeq(marker.examples, Hit)

\* a pattern that re.compile refuses (re.error)
BadPattern == <<"(">>

\* re.search(pattern, text, re.IGNORECASE) for a literal pattern
Search(pattern, txt) == Contains(Lower(txt), Lower(pattern))

\* the pattern loop of _detect_marker returns True: a pattern matches and
\* re.search has raised on none before it
PatternMatches(marker, txt) ==
    \E i \in DOMAIN marker.pattern :
       /\ Search(marker.pattern[i], txt)
       /\ \A j \in 1..(i - 1) : marker.pattern[j] # BadPattern

\* the signal loop of _detect_marker returns True
SignalMatches(marker, txt) ==
    \E i \in DOMAIN marker.signal : Search(marker.signal[i], txt)

\* _detect_marker raises: no example matches and re.search meets a bad
\* pattern before a matching one
DetectRaises(marker, txt) ==
    /\ Len(MatchedExamples(marker, txt)) = 0
    /\ \E i \in DOMAIN marker.pattern :
          /\ marker.pattern[i] = BadPattern
          /\ \A j \in 1..(i - 1) : ~Search(marker.pattern[j], txt)

\* _detect_marker
DetectMarker(marker, txt) ==
    \/ Len(MatchedExamples(marker, txt)) > 0
    \/ PatternMatches(marker, txt)
    \/ ~DetectRaises(marker, txt) /\ SignalMatches(marker, txt)

\* the confidence of _calculate_confidence before the pattern loop
ExampleConfidence(marker, txt) ==
    IF Len(MatchedExamples(marker, txt)) > 0
    THEN Min(Conf(100), Len(MatchedExamples(marker, txt)) * Conf(30))
    ELSE 0

\* the pattern loop of _calculate_confidence: every matching pattern adds
RECURSIVE Boost(_, _, _, _)
Boost(confidence, patterns, txt, k) ==
    IF k > Len(patterns) THEN confidence
    ELSE Boost(IF Search(patterns[k], txt)
               THEN Min(Conf(100), confidence + Conf(40)) ELSE confidence,
               patterns, txt, k + 1)

\* _calculate_confidence raises: the pattern loop runs over a bad pattern
ConfidenceRaises(marker, txt) ==
    /\ marker.pattern # <<>>
    /\ ExampleConfidence(marker, txt) < Conf(100)
    /\ \E i \in DOMAIN marker.pattern : marker.pattern[i] = BadPattern

\* _calculate_confidence
CalculateConfidence(marker, txt) ==
    IF marker.pattern # <<>> /\ ExampleConfidence(marker, txt) < Conf(100)
    THEN Boost(ExampleConfidence(marker, txt), marker.pattern, txt, 1)
    ELSE ExampleConfidence(marker, txt)

\* one pass of the loop body of initial_scan leaves by the except clause
ScanRaises(doc, txt) ==
    \/ ~ValidMarker(doc)
    \/ DetectRaises(doc, txt)
    \/ DetectMarker(doc, txt) /\ ConfidenceRaises(doc, txt)

\* the loop of initial_scan over the documents found
RECURSIVE InitialScanLoop_Abort(_, _, _)
InitialScanLoop_Abort(docs, txt, k) ==
    IF k > Len(docs) THEN <<>>
    ELSE IF ScanRaises(docs[k], txt) THEN <<>>
    ELSE IF DetectMarker(docs[k], txt)
    THEN <<MarkerDict(docs[k]._id, CalculateConfidence(docs[k], txt),
                      "initial", MatchedExamples(docs[k], txt), <<>>, FALSE)>>
         \o InitialScanLoop_Abort(docs, txt, k + 1)
    ELSE InitialScanLoop_Abort(docs, txt, k + 1)

RECURSIVE InitialScanLoop(_, _, _)
InitialScanLoop(docs, txt, k) ==
    IF k > Len(docs) THEN <<>>
    ELSE IF ScanRaises(docs[k], txt) THEN InitialScanLoop(docs, txt, k + 1)
    ELSE IF DetectMarker(docs[k], txt)
    THEN <<MarkerDict(docs[k]._id, CalculateConfidence(docs[k], txt),
                      "initial", MatchedExamples(docs[k], txt), <<>>, FALSE)>>
         \o InitialScanLoop(docs, txt, k + 1)
    ELSE InitialScanLoop(docs, txt, k + 1)

\* initial_scan(text, schema_id)
InitialScan(txt, schema) == InitialScanLoop(Find({"A", "S"}, schema), txt, 1)

(***************************************************************************)
(* ActivationRulesEngine                                                   *)
(***************************************************************************)
uncertainty_markers ==
    {<<"vielleicht">>, <<"moeglicherweise">>, <<"eventuell">>, <<"vermutlich">>}
emphasis_markers ==
    {<<"wirklich">>, <<"tatsaechlich">>, <<"definitiv">>, <<"sicherlich">>}
negation_words ==
    {<<"nicht">>, <<"kein">>, <<"keine">>, <<"niemals">>, <<"nie">>,
     <<"nirgends">>, <<"niemand">>}
conjunctions ==
    {<<"aber">>, <<"jedoch">>, <<"trotzdem">>, <<"dennoch">>, <<"obwohl">>,
     <<"allerdings">>}

\* dict.get(key, default)
Get(d, key, default) == IF key \in DOMAIN d THEN d[key] ELSE default

\* str.upper() of an activation type
Upper(t) ==
    IF t = "all" THEN "ALL" ELSE IF t = "any" THEN "ANY"
    ELSE IF t = "proximity" THEN "PROXIMITY" ELSE t

MinOf(S) == CHOOSE x \in S : \A y \in S : x <= y
MaxOf(S) == CHOOSE x \in S : \A y \in S : y <= x

\* sorted(S)
RECURSIVE SortedSeq(_)
SortedSeq(S) ==
    IF S = {} THEN <<>> ELSE <<MinOf(S)>> \o SortedSeq(S \ {MinOf(S)})

\* the result dict of a rule; nlp_adjustments Nil: details has no such key;
\* raised: the check left by an exception instead of returning
Outcome(activated, confidence, components) ==
    [activated |-> activated, confidence |-> confidence,
     components |-> components, nlp_enhanced |-> FALSE,
     nlp_adjustments |-> Nil, raised |-> FALSE]

\* a rule result carrying "nlp_enhanced": True
Enhanced(result) == [result EXCEPT !.nlp_enhanced = TRUE]

\* ZeroDivisionError out of a rule handler
Raised == [Outcome(FALSE, 0, <<>>) EXCEPT !.raised = TRUE]

FoundComponents(marker, detected_ids) ==
    LET Found(c) == c \in detected_ids
    IN SelectSeq(marker.composed_of[1], Found)

\* _check_all_rule
CheckAllRule_AnyFound(marker, detected_ids) ==
    LET found == FoundComponents(marker, detected_ids)
        activated == Len(found) > 0
    IN Outcome(activated, IF activated THEN Conf(90) ELSE 0, found)

CheckAllRule(marker, detected_ids) ==
    LET found == FoundComponents(marker, detected_ids)
        activated == Len(found) = Len(marker.composed_of[1])
    IN Outcome(activated, IF activated THEN Conf(90) ELSE 0, found)

\* _check_any_rule
CheckAnyRule(marker, detected_ids) ==
    LET found == FoundComponents(marker, detected_ids)
        activated == Len(found) > 0
    IN Outcome(activated,
               IF activated
               THEN Conf(50) + (Conf(40) * Len(found)) \div Len(marker.composed_of[1])
               ELSE 0,
               found)

\* _check_any_n_rule
CheckAnyNRule(marker, detected_ids) ==
    LET n == Get(marker.activation, "count", 2)
        found == FoundComponents(marker, detected_ids)
        activated == Len(found) >= n
        excess == Len(found) - n
        confidence ==
            IF activated
            THEN Conf(70) + (Conf(30) * excess)
                               \div Max(1, Len(marker.composed_of[1]) - n)
            ELSE 0
    IN Outcome(activated, Min(Conf(100), confidence), found)

\* truthiness of context.tokens
HasTokens(toks) == toks # <<>>

\* the start indexes (from 0) at which the tokens text_tokens occur in a row
Occurrences(toks, text_tokens) ==
    SortedSeq({i \in 0..(Len(toks) - Len(text_tokens)) :
                 \A j \in 1..Len(text_tokens) :
                     Lower(toks[i + j]) = text_tokens[j]})

\* the inner loops of _find_component_positions for one detected marker
RECURSIVE ExamplePositions(_, _, _)
ExamplePositions(examples, toks, k) ==
    IF k > Len(examples) THEN <<>>
    ELSE Occurrences(toks, Split(Lower(examples[k])))
         \o ExamplePositions(examples, toks, k + 1)

\* the appends of _find_component_positions, in order
RECURSIVE PositionEntries(_, _, _, _)
PositionEntries(components, toks, markers, k) ==
    IF k > Len(markers) THEN <<>>
    ELSE LET m == markers[k]
             Entries(ps) ==
                 [i \in 1..Len(ps) |-> [id |-> m.marker_id, pos |-> ps[i]]]
         IN Entries(IF m.marker_id \in Range(components)
                    THEN ExamplePositions(m.examples_matched, toks, 1)
                    ELSE <<>>)
            \o PositionEntries(components, toks, markers, k + 1)

\* the keys of a dict in insertion order
RECURSIVE KeysInOrder(_, _, _)
KeysInOrder(ids, k, seen) ==
    IF k > Len(ids) THEN <<>>
    ELSE IF ids[k] \in seen THEN KeysInOrder(ids, k + 1, seen)
    ELSE <<ids[k]>> \o KeysInOrder(ids, k + 1, seen \cup {ids[k]})

\* _find_component_positions: per located component, its positions
FindComponentPositions(components, toks, markers) ==
    IF ~HasTokens(toks) THEN <<>>
    ELSE LET Of(entries, id) ==
                 LET Is(e) == e.id = id
                     Own(own) == [i \in DOMAIN own |-> own[i].pos]
                 IN Own(SelectSeq(entries, Is))
             Dict(entries, keys) ==
                 [n \in DOMAIN keys |->
                     [id |-> keys[n], positions |-> Of(entries, keys[n])]]
             Keyed(entries) ==
                 Dict(entries,
                      KeysInOrder([i \in DOMAIN entries |-> entries[i].id],
                                  1, {}))
         IN Keyed(PositionEntries(components, toks, markers, 1))

\* all_positions: the position lists of a positions dict, joined
RECURSIVE AllPositions(_, _)
AllPositions(positions, k) ==
    IF k > Len(positions) THEN <<>>
    ELSE positions[k].positions \o AllPositions(positions, k + 1)

\* _calculate_max_distance
CalculateMaxDistance(positions) ==
    LET Distance(all_positions) ==
            IF Len(all_positions) < 2 THEN 0
            ELSE MaxOf(Range(all_positions)) - MinOf(Range(all_positions))
    IN Distance(AllPositions(positions, 1))

\* _check_strict_temporal_order: <<activated, confidence>>
CheckStrictTemporalOrder(components, positions, window) ==
    LET Located(c) == \E n \in DOMAIN positions : positions[n].id = c
        First(c) == LET n == CHOOSE n \in DOMAIN positions : positions[n].id = c
                    IN MinOf(Range(positions[n].positions))
        last == Len(components)
        Ordered(first_positions) ==
            IF \E i \in 1..(last - 1) :
                  first_positions[i] > first_positions[i + 1]
            THEN Outcome(FALSE, 0, <<>>)
            ELSE IF \E i \in 1..(last - 1) :
                       first_positions[i + 1] - first_positions[i] > window
            THEN Outcome(FALSE, 0, <<>>)
            ELSE IF window * last = 0 THEN Raised
            ELSE Outcome(TRUE,
                     Max(Conf(60),
                         Conf(90) - (Conf(30) * (first_positions[last]
                                                 - first_positions[1]))
                                        \div (window * last)),
                     <<>>)
    IN IF \E i \in DOMAIN components : ~Located(components[i])
       THEN Outcome(FALSE, 0, <<>>)
       ELSE Ordered([i \in DOMAIN components |-> First(components[i])])

\* _check_temporal_proximity
CheckTemporalProximity(positions, window) ==
    LET MaxGap(sorted) ==
            IF Len(sorted) < 2 THEN 0
            ELSE MaxOf({sorted[i + 1] - sorted[i] :
                           i \in 1..(Len(sorted) - 1)})
        Result(n, max_gap, span) ==
            IF n < 2 THEN Outcome(FALSE, 0, <<>>)
            ELSE IF max_gap > window THEN Outcome(FALSE, 0, <<>>)
            ELSE IF window = 0 THEN Raised
            ELSE Outcome(TRUE,
                     Max(Conf(50),
                         Conf(90) - (Conf(40) * span)
                                        \div (Max(1, n - 1) * window)),
                     <<>>)
        Check(all_positions) ==
            Result(Len(all_positions),
                   MaxGap(SortedSeq(Range(all_positions))),
                   MaxOf(Range(all_positions)) - MinOf(Range(all_positions)))
    IN Check(AllPositions(positions, 1))

\* _check_temporal_rule
CheckTemporalRule(marker, toks, markers) ==
    LET window == Get(marker.activation, "window", 10)
        strict_order == Get(marker.activation, "strict_order", FALSE)
        Result(positions, checked) ==
            IF positions = <<>> THEN Outcome(FALSE, 0, <<>>)
            ELSE IF checked.raised THEN Raised
            ELSE Enhanced(Outcome(checked.activated, checked.confidence,
                                  [n \in DOMAIN positions |-> positions[n].id]))
        Check(positions) ==
            Result(positions,
                   IF strict_order
                   THEN CheckStrictTemporalOrder(marker.composed_of[1],
                                                 positions, window)
                   ELSE CheckTemporalProximity(positions, window))
    IN Check(FindComponentPositions(marker.composed_of[1], toks, markers))

\* max(sent_scores.items(), key=score): the first label of the top score
SentimentLabels == <<"positive", "negative", "neutral">>

Dominant(scores) ==
    LET top == MaxOf({scores[SentimentLabels[i]] : i \in 1..3})
        i == MinOf({j \in 1..3 : scores[SentimentLabels[j]] = top})
    IN SentimentLabels[i]

\* _check_consistent_sentiment; every component carries the overall scores
\* (_get_component_sentiments), n is the number of distinct components
CheckConsistentSentiment(scores, n, min_confidence) ==
    LET avg_confidence == (n * scores[Dominant(scores)]) \div n
    IN Outcome(avg_confidence >= min_confidence, avg_confidence, <<>>)

\* _check_contrasting_sentiment
CheckContrastingSentiment(scores, n, min_confidence) ==
    IF n < 2 THEN Outcome(FALSE, 0, <<>>)
    ELSE IF scores.positive > min_confidence
            /\ scores.negative > min_confidence
    THEN Outcome(TRUE, (scores.positive + scores.negative) \div 2, <<>>)
    ELSE Outcome(FALSE, 0, <<>>)

\* _check_sentiment_rule
CheckSentimentRule(marker, scores, detected_ids) ==
    LET alignment == Get(marker.activation, "alignment", "consistent")
        min_confidence == Get(marker.activation, "min_confidence", Conf(60))
        found == FoundComponents(marker, detected_ids)
        n == Cardinality(Range(found))
        Result(checked) ==
            Enhanced(Outcome(checked.activated, checked.confidence, found))
    IN IF found = <<>> \/ scores = Nil
       THEN CheckAllRule(marker, detected_ids)
       ELSE Result(IF alignment = "consistent"
                   THEN CheckConsistentSentiment(scores[1], n, min_confidence)
                   ELSE IF alignment = "contrasting"
                   THEN CheckContrastingSentiment(scores[1], n, min_confidence)
                   ELSE Outcome(Len(found) = Len(marker.composed_of[1]),
                                Conf(70), <<>>))

\* _check_proximity_rule
CheckProximityRule_AllFound(marker, toks, markers, detected_ids) ==
    LET max_distance == Get(marker.activation, "max_distance", 20)
        Result(found, positions, max_actual_distance, activated) ==
            IF Len(found) < 2 THEN Outcome(FALSE, 0, found)
            ELSE IF positions = <<>> THEN CheckAllRule(marker, detected_ids)
            ELSE IF activated /\ max_distance = 0 THEN Raised
            ELSE Enhanced(Outcome(activated,
                     Max(Conf(50),
                         IF activated
                         THEN Conf(90) - (Conf(40) * max_actual_distance)
                                             \div max_distance
                         ELSE 0),
                     found))
        Measured(found, positions, max_actual_distance) ==
            Result(found, positions, max_actual_distance,
                   /\ max_actual_distance <= max_distance
                   /\ Len(found) = Len(marker.composed_of[1]))
        Located(found, positions) ==
            Measured(found, positions, CalculateMaxDistance(positions))
        Check(found) ==
            Located(found, FindComponentPositions(found, toks, markers))
    IN Check(FoundComponents(marker, detected_ids))

CheckProximityRule(marker, toks, markers, detected_ids) ==
    LET max_distance == Get(marker.activation, "max_distance", 20)
        Result(found, positions, max_actual_distance, activated) ==
            IF Len(found) < 2 THEN Outcome(FALSE, 0, found)
            ELSE IF positions = <<>> THEN CheckAllRule(marker, detected_ids)
            ELSE IF activated /\ max_distance = 0 THEN Raised
            ELSE Enhanced(Outcome(activated,
                     Max(Conf(50),
                         IF activated
                         THEN Conf(90) - (Conf(40) * max_actual_distance)
                                             \div max_distance
                         ELSE 0),
                     found))
        Measured(found, positions, max_actual_distance) ==
            Result(found, positions, max_actual_distance,
                   max_actual_distance <= max_distance)
        Located(found, positions) ==
            Measured(found, positions, CalculateMaxDistance(positions))
        Check(found) ==
            Located(found, FindComponentPositions(found, toks, markers))
    IN Check(FoundComponents(marker, detected_ids))

\* tokens[start:end], indexes from 0, end excluded
Slice(toks, start, end) ==
    [i \in 1..Max(0, Min(end, Len(toks)) - Max(start, 0)) |->
        toks[Max(start, 0) + i]]

\* _detect_negation_context
DetectNegationContext(components, toks, markers, window) ==
    IF ~HasTokens(toks) THEN FALSE
    ELSE LET Near(pos) ==
                 LET window_tokens == Slice(toks, Max(0, pos - window),
                                            Min(Len(toks), pos + window + 1))
                 IN \E i \in DOMAIN window_tokens :
                       Lower(window_tokens[i]) \in negation_words
             AnyNegated(positions) ==
                 \E n \in DOMAIN positions :
                    \E k \in DOMAIN positions[n].positions :
                       Near(positions[n].positions[k])
         IN AnyNegated(FindComponentPositions(components, toks, markers))

\* _check_negation_rule
CheckNegationRule(marker, toks, markers, detected_ids) ==
    LET negation_window == Get(marker.activation, "negation_window", 3)
        allow_negation == Get(marker.activation, "allow_negation", FALSE)
        Result(found, has_negation, all_found) ==
            IF found = <<>> THEN Outcome(FALSE, 0, <<>>)
            ELSE IF allow_negation
            THEN Enhanced(Outcome(all_found,
                                  IF has_negation THEN Conf(70) ELSE Conf(90),
                                  found))
            ELSE Enhanced(Outcome(all_found /\ ~has_negation,
                                  IF all_found /\ ~has_negation THEN Conf(90)
                                  ELSE 0,
                                  found))
        Check(found) ==
            Result(found,
                   DetectNegationContext(found, toks, markers, negation_window),
                   Len(found) = Len(marker.composed_of[1]))
    IN Check(FoundComponents(marker, detected_ids))

\* has_conjunction of _check_conjunction_pattern.  pos_ranges holds one
\* (min, max) per located component and is sorted; a range is kept here as
\* the number min * k + max
HasConjunction(positions, toks) ==
    /\ Len(positions) >= 2
    /\ HasTokens(toks)
    /\ LET k == Len(toks) + 1
           pos_ranges ==
               SortedSeq({MinOf(Range(positions[n].positions)) * k
                          + MaxOf(Range(positions[n].positions)) :
                             n \in DOMAIN positions})
       IN \E i \in 1..(Len(pos_ranges) - 1) :
             LET between_tokens == Slice(toks, pos_ranges[i] % k,
                                         pos_ranges[i + 1] \div k)
             IN \E j \in DOMAIN between_tokens :
                   Lower(between_tokens[j]) \in conjunctions

\* _check_conjunction_pattern
CheckConjunctionPattern_TwoFound(marker, toks, markers, detected_ids) ==
    LET Result(found, activated) ==
            IF Len(found) < 2 THEN Outcome(FALSE, 0, found)
            ELSE Enhanced(Outcome(activated, IF activated THEN Conf(95) ELSE 0,
                                  found))
        Check(found) ==
            Result(found,
                   HasConjunction(
                       FindComponentPositions(found, toks, markers), toks))
    IN Check(FoundComponents(marker, detected_ids))

CheckConjunctionPattern(marker, toks, markers, detected_ids) ==
    LET Result(found, activated) ==
            IF Len(found) < 2 THEN Outcome(FALSE, 0, found)
            ELSE Enhanced(Outcome(activated, IF activated THEN Conf(95) ELSE 0,
                                  found))
        Check(found) ==
            Result(found,
                   /\ Len(found) = Len(marker.composed_of[1])
                   /\ HasConjunction(
                          FindComponentPositions(found, toks, markers), toks))
    IN Check(FoundComponents(marker, detected_ids))

\* _check_cause_effect_pattern
CheckCauseEffectPattern(marker, detected_ids) ==
    CheckAllRule(marker, detected_ids)

\* _check_pattern_rule
CheckPatternRule_AlwaysConjunction(marker, toks, markers, detected_ids) ==
    CheckConjunctionPattern(marker, toks, markers, detected_ids)

CheckPatternRule(marker, toks, markers, detected_ids) ==
    LET pattern_type == Get(marker.activation, "pattern", "conjunction")
    IN IF pattern_type = "conjunction"
       THEN CheckConjunctionPattern(marker, toks, markers, detected_ids)
       ELSE IF pattern_type = "cause_effect"
       THEN CheckCauseEffectPattern(marker, detected_ids)
       ELSE CheckAllRule(marker, detected_ids)

\* the adjustments _apply_nlp_enhancements makes, in order
NlpAdjustments(toks) ==
    (IF toks[Len(toks)] = <<"?">> THEN <<"question_context">> ELSE <<>>)
    \o (IF \E i \in DOMAIN toks : Lower(toks[i]) \in uncertainty_markers
        THEN <<"uncertainty_markers">> ELSE <<>>)
    \o (IF \E i \in DOMAIN toks : Lower(toks[i]) \in emphasis_markers
        THEN <<"emphasis_markers">> ELSE <<>>)

\* _apply_nlp_enhancements
ApplyNlpEnhancements_Uncapped(result, toks) ==
    LET c0 == result.confidence
        c1 == IF toks[Len(toks)] = <<"?">> THEN (c0 * 9) \div 10 ELSE c0
        c2 == IF \E i \in DOMAIN toks : Lower(toks[i]) \in uncertainty_markers
              THEN (c1 * 85) \div 100 ELSE c1
        c3 == IF \E i \in DOMAIN toks : Lower(toks[i]) \in emphasis_markers
              THEN (c2 * 11) \div 10 ELSE c2
    IN [result EXCEPT !.confidence = c3, !.nlp_enhanced = TRUE,
                      !.nlp_adjustments = Some(NlpAdjustments(toks))]

ApplyNlpEnhancements(result, toks) ==
    LET c0 == result.confidence
        c1 == IF toks[Len(toks)] = <<"?">> THEN (c0 * 9) \div 10 ELSE c0
        c2 == IF \E i \in DOMAIN toks : Lower(toks[i]) \in uncertainty_markers
              THEN (c1 * 85) \div 100 ELSE c1
        c3 == IF \E i \in DOMAIN toks : Lower(toks[i]) \in emphasis_markers
              THEN Min(Conf(100), (c2 * 11) \div 10) ELSE c2
    IN [result EXCEPT !.confidence = c3, !.nlp_enhanced = TRUE,
                      !.nlp_adjustments = Some(NlpAdjustments(toks))]

\* the combination step of _check_composite_rule over the subrule results
CombineComposite_Swapped(rule_results, operator) ==
    LET confidences == {rule_results[i].confidence : i \in DOMAIN rule_results}
        all_components ==
            KeysInOrder(AllPositions([i \in DOMAIN rule_results |->
                            [positions |-> rule_results[i].components]], 1), 1, {})
    IN IF \E i \in DOMAIN rule_results : rule_results[i].raised THEN Raised
       ELSE IF operator = "AND"
       THEN Enhanced(Outcome(\A i \in DOMAIN rule_results : rule_results[i].activated,
                             IF rule_results = <<>> THEN 0 ELSE MaxOf(confidences),
                             all_components))
       ELSE Enhanced(Outcome(\E i \in DOMAIN rule_results : rule_results[i].activated,
                             IF rule_results = <<>> THEN 0 ELSE MinOf(confidences),
                             all_components))

CombineComposite(rule_results, operator) ==
    LET confidences == {rule_results[i].confidence : i \in DOMAIN rule_results}
        all_components ==
            KeysInOrder(AllPositions([i \in DOMAIN rule_results |->
                            [positions |-> rule_results[i].components]], 1), 1, {})
    IN IF \E i \in DOMAIN rule_results : rule_results[i].raised THEN Raised
       ELSE IF operator = "AND"
       THEN Enhanced(Outcome(\A i \in DOMAIN rule_results : rule_results[i].activated,
                             IF rule_results = <<>> THEN 0 ELSE MinOf(confidences),
                             all_components))
       ELSE Enhanced(Outcome(\E i \in DOMAIN rule_results : rule_results[i].activated,
                             IF rule_results = <<>> THEN 0 ELSE MaxOf(confidences),
                             all_components))

RECURSIVE CheckActivation(_, _, _, _, _)

\* _check_composite_rule: every subrule is checked by check_activation on a
\* copy of the marker whose activation is the subrule.  list(set(...))
\* fixes no order of the components: they are listed here by first
\* appearance, and a caller that reads the order takes any permutation
CheckCompositeRule(marker, toks, markers, scores, detected_ids) ==
    LET rules == Get(marker.activation, "rules", <<>>)
        operator == Get(marker.activation, "operator", "AND")
        rule_results == [i \in DOMAIN rules |->
                       CheckActivation([marker EXCEPT !.activation = rules[i]],
                                       toks, markers, scores, detected_ids)]
    IN CombineComposite(rule_results, operator)

\* rule_handlers[rule_type](marker, context, detected_marker_ids), or the
\* ALL rule for a type without handler
ApplyRule(marker, toks, markers, scores, detected_ids) ==
    LET rule_type == Upper(Get(marker.activation, "type", "ALL"))
    IN IF rule_type = "ALL" THEN CheckAllRule(marker, detected_ids)
       ELSE IF rule_type = "ANY" THEN CheckAnyRule(marker, detected_ids)
       ELSE IF rule_type = "ANY_N" THEN CheckAnyNRule(marker, detected_ids)
       ELSE IF rule_type = "TEMPORAL"
       THEN CheckTemporalRule(marker, toks, markers)
       ELSE IF rule_type = "SENTIMENT"
       THEN CheckSentimentRule(marker, scores, detected_ids)
       ELSE IF rule_type = "PROXIMITY"
       THEN CheckProximityRule(marker, toks, markers, detected_ids)
       ELSE IF rule_type = "NEGATION"
       THEN CheckNegationRule(marker, toks, markers, detected_ids)
       ELSE IF rule_type = "PATTERN"
       THEN CheckPatternRule(marker, toks, markers, detected_ids)
       ELSE IF rule_type = "COMPOSITE"
       THEN CheckCompositeRule(marker, toks, markers, scores, detected_ids)
       ELSE CheckAllRule(marker, detected_ids)

\* the marker takes the default rule: "not marker.activation or not
\* marker.composed_of"
DefaultRule(marker) ==
    marker.activation = NoActivation \/ marker.composed_of \in {Nil, Some(<<>>)}

\* what check_activation holds in result before its last step
RuleResult(marker, toks, markers, scores, detected_ids) ==
    IF DefaultRule(marker) THEN CheckAllRule(marker, detected_ids)
    ELSE ApplyRule(marker, toks, markers, scores, detected_ids)

\* check_activation
CheckActivation(marker, toks, markers, scores, detected_ids) ==
    LET PostProcess(result) ==
            IF DefaultRule(marker) \/ result.raised THEN result
            ELSE IF result.activated /\ HasTokens(toks)
            THEN ApplyNlpEnhancements(result, toks)
            ELSE result
    IN PostProcess(RuleResult(marker, toks, markers, scores, detected_ids))

(***************************************************************************)
(* MarkerService, phase 3                                                  *)
(***************************************************************************)
\* the loop of contextual_rescan; a document whose evaluation raises
\* (Marker() validation, composed_of None) is skipped
RECURSIVE ContextualRescanLoop_Cascade(_, _, _, _)
ContextualRescanLoop_Cascade(docs, toks, markers, k) ==
    IF k > Len(docs) THEN <<>>
    ELSE LET doc == docs[k]
             ok == ValidMarker(doc) /\ doc.composed_of # Nil
             Entry(res) ==
                 MarkerDict(doc._id, res.confidence, "contextual", <<>>,
                            res.components, res.nlp_enhanced)
             Step(res) ==
                 IF ok /\ ~res.raised /\ res.activated
                 THEN <<Entry(res)>>
                      \o ContextualRescanLoop_Cascade(
                             docs, toks, Append(markers, Entry(res)), k + 1)
                 ELSE ContextualRescanLoop_Cascade(docs, toks, markers, k + 1)
         IN Step(CheckActivation(doc, toks, markers, Nil, Ids(markers)))

RECURSIVE ContextualRescanLoop(_, _, _, _)
ContextualRescanLoop(docs, toks, markers, k) ==
    IF k > Len(docs) THEN <<>>
    ELSE LET doc == docs[k]
             ok == ValidMarker(doc) /\ doc.composed_of # Nil
             Step(res, rest) ==
                 IF ok /\ ~res.raised /\ res.activated
                 THEN <<MarkerDict(doc._id, res.confidence, "contextual", <<>>,
                                   res.components, res.nlp_enhanced)>> \o rest
                 ELSE rest
         IN Step(CheckActivation(doc, toks, markers, Nil, Ids(markers)),
                 ContextualRescanLoop(docs, toks, markers, k + 1))

\* contextual_rescan(context)
ContextualRescan(markers, toks, schema) ==
    ContextualRescanLoop(Find({"C", "MM"}, schema), toks, markers, 1)

(***************************************************************************)
(* AnalysisContext and the result envelopes                                *)
(***************************************************************************)
Schemas == {None, "default", "s1"}

\* context.metadata after construction; phaseN_error FALSE and nlp_service
\* None: the key is absent
EmptyMetadata ==
    [phase1_marker_count |-> 0, phase1_error |-> FALSE,
     nlp_skipped |-> FALSE, phase2_enrichment |-> Nil, phase2_error |-> FALSE,
     phase3_markers_added |-> 0, phase3_error |-> FALSE,
     nlp_service |-> None]

\* AnalysisContext(...) validates schema_id: str, so None is refused
ContextAccepts(sch) == sch # None

\* the request id a context carries
GenerateRequestId(n) == n

NoResult == [status |-> "none"]

\* _prepare_results
PrepareResults_Enriched(rid, txt, sch, markers, meta) ==
    [request_id |-> rid, status |-> "success", text |-> txt,
     markers |-> markers, marker_count |-> Len(markers),
     nlp_enriched |-> TRUE,
     schema_id |-> sch,
     phase1_error |-> meta.phase1_error,
     phase2_error |-> meta.phase2_error,
     phase3_error |-> meta.phase3_error,
     markers_found |-> meta.phase1_marker_count,
     markers_added |-> meta.phase3_markers_added,
     partial_results |-> 0, from_cache |-> FALSE]

PrepareResults(rid, txt, sch, markers, meta) ==
    [request_id |-> rid, status |-> "success", text |-> txt,
     markers |-> markers, marker_count |-> Len(markers),
     nlp_enriched |-> ~meta.nlp_skipped,
     schema_id |-> sch,
     phase1_error |-> meta.phase1_error,
     phase2_error |-> meta.phase2_error,
     phase3_error |-> meta.phase3_error,
     markers_found |-> meta.phase1_marker_count,
     markers_added |-> meta.phase3_markers_added,
     partial_results |-> 0, from_cache |-> FALSE]

\* _prepare_error_results; the envelope has no nlp_enriched and no phases
PrepareErrorResults(rid, txt, sch, markers, meta) ==
    [request_id |-> rid, status |-> "error", text |-> txt,
     markers |-> <<>>, marker_count |-> 0,
     nlp_enriched |-> FALSE,
     schema_id |-> sch,
     phase1_error |-> FALSE, phase2_error |-> FALSE, phase3_error |-> FALSE,
     markers_found |-> 0, markers_added |-> 0,
     partial_results |-> Len(markers), from_cache |-> FALSE]

(***************************************************************************)
(* Cache                                                                   *)
(***************************************************************************)
\* settings.CACHE_DEFAULT_TTL, in clock ticks (one tick is 3600 seconds)
CACHE_DEFAULT_TTL == 1

\* hashlib.md5(text.encode()).hexdigest(): one digest per text
Md5(txt) == <<"md5", txt>>

\* _generate_cache_key
GenerateCacheKey(txt, sch) ==
    <<"analysis", IF sch \in {None, ""} THEN "default" ELSE sch, Md5(txt)>>

Keys == {GenerateCacheKey(t, sch) : t \in Texts, sch \in Schemas}

NoEntry == [present |-> FALSE]

\* CacheEntry(value, ttl)
CacheEntry(value, ttl, t) ==
    [present |-> TRUE, value |-> value,
     expires_at |-> IF ttl # 0 THEN Some(t + ttl) ELSE Nil]

\* CacheEntry.is_expired
IsExpired_Early(entry, t) == entry.expires_at # Nil /\ t >= entry.expires_at[1]

IsExpired(entry, t) == entry.expires_at # Nil /\ t > entry.expires_at[1]

\* MemoryCache.get: the value, or NoResult for None
CacheGet(c, key, t) ==
    IF ~c[key].present \/ IsExpired(c[key], t) THEN NoResult ELSE c[key].value

\* the key space after MemoryCache.get: an expired entry is dropped
CacheAfterGet(c, key, t) ==
    IF c[key].present /\ IsExpired(c[key], t)
    THEN [c EXCEPT ![key] = NoEntry] ELSE c

\* MemoryCache.set
CacheSet(c, key, value, ttl, t) == [c EXCEPT ![key] = CacheEntry(value, ttl, t)]

\* no analyze_batch is running
NoTimings == [k \in {} |-> 0]

NoBatch == tasks = <<>> /\ phase_timings = NoTimings

\* no check_activation call is being looked at
NoMarker == [id |-> Nil]

NoOutcome == [rule_type |-> "none"]

NoCheck ==
    /\ checked_marker = NoMarker /\ checked_ids = {}
    /\ sentiment_scores = Nil
    /\ rule_result = NoOutcome /\ outcome = NoOutcome

\* no scan of MarkerService is being looked at on its own
NoScan == atomic_docs = <<>> /\ complex_docs = <<>> /\ activated_markers = Nil

\* no aggregate_events call is being looked at
NoAggregate ==
    /\ default_config = Nil /\ agg_marker = NoMarker /\ agg_events = <<>>
    /\ filtered = <<>> /\ agg_result = NoOutcome

\* no LayeredCache is being looked at
NoWrite == [op |-> "none"]

NoLayered ==
    /\ l1_cache = NoEntry /\ l2_cache = NoEntry
    /\ cache_ops = <<>> /\ last_write = NoWrite

NoAux == NoScan /\ NoAggregate /\ NoLayered

(***************************************************************************)
(* OrchestrationService.analyze / OrchestrationServiceDI.analyze           *)
(*                                                                         *)
(* One call runs at a time.  pc: "idle", "phase1", "phase2", "phase3",     *)
(* "prepare", "except" (the handler of analyze's own try), "returned",     *)
(* "raised" (the call raised to its caller).                               *)
(***************************************************************************)
Init ==
    /\ di \in BOOLEAN
    /\ provider \in (IF di THEN {"memory", "redis"} ELSE {"none"})
    /\ pc = "idle"
    /\ text = <<>> /\ schema_id = None
    /\ detected_markers = <<>> /\ metadata = EmptyMetadata
    /\ tokens = <<>> /\ sentences = <<>>
    /\ results = NoResult
    /\ cache = [k \in Keys |-> NoEntry]
    /\ now = 0
    /\ runs = 0
    /\ trace = <<>> /\ faults = {} /\ calls = {}
    /\ held = NoEntry /\ expected = NoEntry
    /\ valid = [k \in Keys |-> NoEntry]
    /\ prev_markers = <<>> /\ last_in = Nil /\ repeated = FALSE
    /\ NoBatch /\ NoCheck /\ NoAux

\* _check_cache: what it returns, given how the provider's get ended
CheckCache_StaleOnError(c, key, t, get_out) ==
    IF get_out = "raise"
    THEN IF c[key].present THEN [c[key].value EXCEPT !.from_cache = TRUE]
         ELSE NoResult
    ELSE LET cached == CacheGet(c, key, t)
         IN IF cached = NoResult THEN NoResult
            ELSE [cached EXCEPT !.from_cache = TRUE]

CheckCache_Untagged(c, key, t, get_out) ==
    IF get_out = "raise" THEN NoResult ELSE CacheGet(c, key, t)

CheckCache(c, key, t, get_out) ==
    IF get_out = "raise" THEN NoResult
    ELSE LET cached == CacheGet(c, key, t)
         IN IF cached = NoResult THEN NoResult
            ELSE [cached EXCEPT !.from_cache = TRUE]

\* the key space after _check_cache: MemoryCache hands out the stored dict
\* itself, so the from_cache tag is written into the entry
CacheAfterCheck(c, key, t, get_out, prov) ==
    IF get_out = "raise" THEN c
    ELSE LET cached == CacheGet(c, key, t)
         IN IF cached # NoResult /\ prov = "memory"
            THEN [c EXCEPT ![key].value.from_cache = TRUE]
            ELSE CacheAfterGet(c, key, t)

\* analyze, up to the first phase: request id, cache lookup, metrics,
\* context construction.  get_out: how cache.get ended; m_out: whether a
\* metrics call raised before the try block or inside it.
Begin(txt, sch, get_out, m_out) ==
    /\ pc \in {"idle", "returned", "raised"}
    /\ get_out = "raise" => provider = "redis"
    /\ m_out # "ok" => di
    /\ LET key == GenerateCacheKey(txt, sch)
           cached == IF di THEN CheckCache(cache, key, now, get_out)
                     ELSE NoResult
       IN /\ held' = IF di /\ cache[key].present /\ ~IsExpired(cache[key], now)
                     THEN cache[key] ELSE NoEntry
          /\ expected' = IF di /\ valid[key].present /\ now <= valid[key].expires
                         THEN valid[key] ELSE NoEntry
          /\ cache' = IF di
                      THEN CacheAfterCheck(cache, key, now, get_out, provider)
                      ELSE cache
          /\ faults' = (IF get_out = "raise" THEN {"cache_get"} ELSE {})
                       \cup (IF \/ m_out = "raise_outside"
                                \/ /\ m_out = "raise_inside"
                                   /\ cached = NoResult
                                   /\ ContextAccepts(sch)
                             THEN {"metrics"} ELSE {})
                       \cup (IF m_out # "raise_outside" /\ cached = NoResult
                                /\ ~ContextAccepts(sch)
                             THEN {"context"} ELSE {})
          /\ IF m_out = "raise_outside"
             THEN pc' = "raised" /\ results' = NoResult
             ELSE IF cached # NoResult
             THEN pc' = "returned" /\ results' = cached
             ELSE IF ~ContextAccepts(sch)
             THEN pc' = "raised" /\ results' = NoResult
             ELSE IF m_out = "raise_inside"
             THEN pc' = "except" /\ results' = NoResult
             ELSE pc' = "phase1" /\ results' = NoResult
    /\ runs' = runs + 1
    /\ text' = txt /\ schema_id' = sch
    /\ detected_markers' = <<>> /\ metadata' = EmptyMetadata
    /\ tokens' = <<>> /\ sentences' = <<>>
    /\ trace' = <<>> /\ calls' = {}
    /\ prev_markers' = <<>> /\ last_in' = Nil /\ repeated' = FALSE
    /\ UNCHANGED <<now, valid, cfg_vars, batch_vars, engine_vars,
                   aux_vars>>

\* the except clause of a phase method: context.metadata[key] = str(e)
RecordError_Lost(meta, key) == meta

RecordError(meta, key) == [meta EXCEPT ![key] = TRUE]

\* where analyze goes after a phase method: on to the next phase, or to its
\* except clause when a metrics or logging call of the phase method raised
\* outside the phase's try block
AfterPhase_SkipNlp(next, metrics_raise) ==
    IF metrics_raise THEN "except"
    ELSE IF next = "phase2" THEN "phase3" ELSE next

AfterPhase(next, metrics_raise) == IF metrics_raise THEN "except" ELSE next

\* _phase1_initial_scan
Phase1(scan_out, metrics_raise) ==
    /\ pc = "phase1"
    /\ metrics_raise => di
    /\ trace' = Append(trace, 1)
    /\ calls' = calls \cup {"initial_scan"}
    /\ IF scan_out = "ok"
       THEN LET initial_markers == InitialScan(text, schema_id)
            IN /\ detected_markers' = initial_markers
               /\ metadata' = [metadata EXCEPT
                                  !.phase1_marker_count = Len(initial_markers)]
       ELSE /\ detected_markers' = <<>>
            /\ metadata' = RecordError(metadata, "phase1_error")
    /\ faults' = faults \cup (IF scan_out = "raise" THEN {"phase1"} ELSE {})
                        \cup (IF metrics_raise THEN {"metrics"} ELSE {})
    /\ pc' = AfterPhase("phase2", metrics_raise)
    /\ UNCHANGED <<text, schema_id, tokens, sentences, results, runs, held,
                   expected, cache_vars, cfg_vars,
                   batch_vars, engine_vars, merge_vars,
                   aux_vars>>

\* _phase2_nlp_enrichment.  nlp_out: "unavailable" (is_available() is
\* False), "ok", "raise_before" (the enricher raised before assigning a
\* field), "raise_partial" (it raised after assigning context.tokens)
Phase2(nlp_out, metrics_raise) ==
    /\ pc = "phase2"
    /\ metrics_raise => di
    /\ trace' = Append(trace, 2)
    /\ calls' = calls \cup {"is_available"}
                      \cup (IF nlp_out # "unavailable" THEN {"enrich"} ELSE {})
    /\ tokens' = IF nlp_out \in {"ok", "raise_partial"} THEN Split(text)
                 ELSE tokens
    /\ sentences' = IF nlp_out = "ok" THEN <<text>> ELSE sentences
    /\ metadata' =
         IF nlp_out = "unavailable"
         THEN [metadata EXCEPT !.nlp_skipped = TRUE]
         ELSE IF nlp_out = "ok"
         THEN [metadata EXCEPT
                  !.nlp_service = "dummy",
                  !.phase2_enrichment =
                      Some([tokens |-> Len(Split(text)), sentences |-> 1,
                            nlp_service |-> "dummy"])]
         ELSE RecordError(metadata, "phase2_error")
    /\ faults' = faults
                 \cup (IF nlp_out \in {"raise_before", "raise_partial"}
                       THEN {"phase2"} ELSE {})
                 \cup (IF metrics_raise THEN {"metrics"} ELSE {})
    /\ pc' = AfterPhase("phase3", metrics_raise)
    /\ UNCHANGED <<text, schema_id, detected_markers, results, runs, held,
                   expected, cache_vars, cfg_vars,
                   batch_vars, engine_vars, merge_vars,
                   aux_vars>>

\* _phase3_contextual_rescan
Phase3(scan_out, metrics_raise) ==
    /\ pc = "phase3"
    /\ metrics_raise => di
    /\ metadata.nlp_skipped => scan_out = "ok"
    /\ trace' = Append(trace, 3)
    /\ IF metadata.nlp_skipped
       THEN UNCHANGED <<detected_markers, metadata, calls, merge_vars>>
       ELSE /\ calls' = calls \cup {"contextual_rescan"}
            /\ IF scan_out = "ok"
               THEN LET contextual_markers ==
                            ContextualRescan(detected_markers, tokens, schema_id)
                        merged == MergeMarkers(detected_markers,
                                               contextual_markers)
                    IN /\ detected_markers' = merged
                       /\ metadata' = [metadata EXCEPT
                              !.phase3_markers_added =
                                  Len(merged) - Len(detected_markers)]
                       /\ prev_markers' = detected_markers
                       /\ repeated' = (last_in = Some(contextual_markers))
                       /\ last_in' = Some(contextual_markers)
               ELSE /\ metadata' = RecordError(metadata, "phase3_error")
                    /\ UNCHANGED <<detected_markers, merge_vars>>
    /\ faults' = faults \cup (IF scan_out = "raise" THEN {"phase3"} ELSE {})
                        \cup (IF metrics_raise THEN {"metrics"} ELSE {})
    /\ pc' = AfterPhase("prepare", metrics_raise)
    /\ UNCHANGED <<text, schema_id, tokens, sentences, results, runs, held,
                   expected, cache_vars, cfg_vars, batch_vars, engine_vars,
                   aux_vars>>

\* the context is local to analyze: it is gone when the call ends
DiscardContext ==
    /\ text' = <<>> /\ schema_id' = None
    /\ detected_markers' = <<>> /\ metadata' = EmptyMetadata
    /\ tokens' = <<>> /\ sentences' = <<>>
    /\ prev_markers' = <<>> /\ last_in' = Nil /\ repeated' = FALSE

\* _cache_results: the key space after it.  set_out "fail": the provider's
\* set raised or dropped the value; the failure is logged
CacheResults(c, key, res, t, set_out) ==
    IF res.status = "error" \/ set_out = "fail" THEN c
    ELSE CacheSet(c, key, res, CACHE_DEFAULT_TTL, t)

\* the end of analyze's try block: _prepare_results, _cache_results,
\* _track_success_metrics, and the finally clause.  m_out: "track_raise"
\* (_track_success_metrics raised), "finally_raise" (a logging or metrics
\* call of the finally clause raised)
Finalize(set_out, m_out) ==
    /\ pc = "prepare"
    /\ set_out = "fail" => provider = "redis"
    /\ m_out # "ok" => di
    /\ trace' = Append(trace, 4)
    /\ LET key == GenerateCacheKey(text, schema_id)
           res == PrepareResults(GenerateRequestId(runs), text, schema_id,
                                 detected_markers, metadata)
       IN /\ cache' = IF di THEN CacheResults(cache, key, res, now, set_out)
                      ELSE cache
          /\ results' = IF m_out = "finally_raise" THEN NoResult
                        ELSE IF m_out = "track_raise"
                        THEN PrepareErrorResults(GenerateRequestId(runs), text,
                                 schema_id, detected_markers, metadata)
                        ELSE res
          /\ valid' = IF di /\ set_out = "ok"
                      THEN [valid EXCEPT ![key] =
                               [present |-> TRUE, env |-> res,
                                expires |-> now + CACHE_DEFAULT_TTL]]
                      ELSE valid
    /\ pc' = IF m_out = "finally_raise" THEN "raised" ELSE "returned"
    /\ faults' = faults \cup (IF set_out = "fail" THEN {"cache_set"} ELSE {})
                        \cup (IF m_out # "ok" THEN {"metrics"} ELSE {})
    /\ DiscardContext
    /\ UNCHANGED <<runs, held, expected, calls, now, cfg_vars,
                   batch_vars, engine_vars,
                   aux_vars>>

\* the except clause of analyze and its finally clause
Except(finally_raise) ==
    /\ pc = "except"
    /\ finally_raise => di
    /\ trace' = Append(trace, 5)
    /\ results' = IF finally_raise THEN NoResult
                  ELSE PrepareErrorResults(GenerateRequestId(runs), text,
                           schema_id, detected_markers, metadata)
    /\ pc' = IF finally_raise THEN "raised" ELSE "returned"
    /\ faults' = faults \cup (IF finally_raise THEN {"metrics"} ELSE {})
    /\ DiscardContext
    /\ UNCHANGED <<runs, held, expected, calls, cache_vars, cfg_vars,
                   batch_vars, engine_vars,
                   aux_vars>>

\* between two calls: the caller has taken what the last call returned
BetweenCalls ==
    /\ pc \in {"idle", "returned", "raised"}
    /\ pc' = "idle"
    /\ results' = NoResult /\ held' = NoEntry /\ expected' = NoEntry
    /\ trace' = <<>> /\ faults' = {} /\ calls' = {}
    /\ UNCHANGED <<runs, ctx_vars, cfg_vars,
                   batch_vars, engine_vars, merge_vars,
                   aux_vars>>

\* time passes while the cache holds something
Tick ==
    /\ di
    /\ BetweenCalls
    /\ \E k \in Keys : cache[k].present
    /\ now < MaxTime
    /\ now' = now + 1
    /\ UNCHANGED <<cache, valid>>

\* MemoryCache.delete
CacheDelete(key) ==
    /\ di
    /\ BetweenCalls
    /\ cache[key].present
    /\ cache' = [cache EXCEPT ![key] = NoEntry]
    /\ valid' = [valid EXCEPT ![key] = NoEntry]
    /\ UNCHANGED now

\* MemoryCache.clear
CacheClear ==
    /\ di
    /\ BetweenCalls
    /\ \E k \in Keys : cache[k].present
    /\ cache' = [k \in Keys |-> NoEntry]
    /\ valid' = [k \in Keys |-> NoEntry]
    /\ UNCHANGED now

\* the lists handed to _merge_markers: up to MaxNew contextual dicts
MergeIds == {S_A, C_AB}
MergeConfidences == {Conf(30), Conf(90)}
NewMarkerLists ==
    UNION {[1..n -> {DetectedMarker(id, c, "contextual") :
                        id \in MergeIds, c \in MergeConfidences}] : n \in 0..MaxNew}

\* context.detected_markers after phase 1, before any merge
InitMerge ==
    /\ di = FALSE /\ provider = "none"
    /\ pc = "merge"
    /\ text \in Texts /\ schema_id \in Schemas \ {None}
    /\ detected_markers = InitialScan(text, schema_id)
    /\ metadata = [EmptyMetadata EXCEPT
                      !.phase1_marker_count = Len(detected_markers)]
    /\ tokens = <<>> /\ sentences = <<>>
    /\ results = NoResult
    /\ cache = [k \in Keys |-> NoEntry]
    /\ now = 0
    /\ runs = 0
    /\ trace = <<1>> /\ faults = {} /\ calls = {"initial_scan"}
    /\ held = NoEntry /\ expected = NoEntry
    /\ valid = [k \in Keys |-> NoEntry]
    /\ prev_markers = <<>> /\ last_in = Nil /\ repeated = FALSE
    /\ NoBatch /\ NoCheck /\ NoAux

\* one call _merge_markers(context, new_markers)
MergeCall(new_markers) ==
    /\ pc = "merge"
    /\ runs < MaxMerges
    /\ runs' = runs + 1
    /\ detected_markers' = MergeMarkers(detected_markers, new_markers)
    /\ prev_markers' = detected_markers
    /\ repeated' = (last_in = Some(new_markers))
    /\ last_in' = Some(new_markers)
    /\ UNCHANGED <<text, schema_id, metadata, tokens, sentences, pc, results,
                   trace, faults, held, expected, calls, cache_vars,
                   cfg_vars, batch_vars, engine_vars,
                   aux_vars>>

NextMerge == \E new_markers \in NewMarkerLists : MergeCall(new_markers)

SpecMerge == InitMerge /\ [][NextMerge]_vars

\* one analyze call at a time, followed through its phases, every fault
\* of a collaborator allowed
Next ==
    \/ \E txt \in Texts, sch \in Schemas, get_out \in {"ok", "raise"},
          m_out \in {"ok", "raise_outside", "raise_inside"} :
          runs < MaxRuns /\ Begin(txt, sch, get_out, m_out)
    \/ \E scan_out \in {"ok", "raise"}, metrics_raise \in BOOLEAN :
          Phase1(scan_out, metrics_raise)
    \/ \E nlp_out \in {"unavailable", "ok", "raise_before", "raise_partial"},
          metrics_raise \in BOOLEAN :
          Phase2(nlp_out, metrics_raise)
    \/ \E scan_out \in {"ok", "raise"}, metrics_raise \in BOOLEAN :
          Phase3(scan_out, metrics_raise)
    \/ \E set_out \in {"ok", "fail"},
          m_out \in {"ok", "track_raise", "finally_raise"} :
          Finalize(set_out, m_out)
    \/ \E finally_raise \in BOOLEAN : Except(finally_raise)

Spec == Init /\ [][Next]_vars

\* the steps of the call that is running: its phases, result assembly and
\* except clause
RunStep ==
    \/ \E scan_out \in {"ok", "raise"}, metrics_raise \in BOOLEAN :
          Phase1(scan_out, metrics_raise)
    \/ \E nlp_out \in {"unavailable", "ok", "raise_before", "raise_partial"},
          metrics_raise \in BOOLEAN :
          Phase2(nlp_out, metrics_raise)
    \/ \E scan_out \in {"ok", "raise"}, metrics_raise \in BOOLEAN :
          Phase3(scan_out, metrics_raise)
    \/ \E set_out \in {"ok", "fail"},
          m_out \in {"ok", "track_raise", "finally_raise"} :
          Finalize(set_out, m_out)
    \/ \E finally_raise \in BOOLEAN : Except(finally_raise)

\* analyze on an event loop that resumes the coroutine, with collaborators
\* (marker store, enricher, cache) whose calls return or raise
SpecLive == Init /\ [][Next]_vars /\ WF_vars(RunStep)

\* the caching service over several calls: the scans succeed, the cache
\* provider and the metrics may fail, time passes, entries are deleted
InitCache == Init /\ di

NextCache ==
    \/ \E txt \in Texts, sch \in Schemas, get_out \in {"ok", "raise"},
          m_out \in {"ok", "raise_inside"} :
          runs < MaxCalls /\ Begin(txt, sch, get_out, m_out)
    \/ Phase1("ok", FALSE)
    \/ \E nlp_out \in {"unavailable", "ok"} : Phase2(nlp_out, FALSE)
    \/ Phase3("ok", FALSE)
    \/ \E set_out \in {"ok", "fail"}, m_out \in {"ok", "track_raise"} :
          Finalize(set_out, m_out)
    \/ Except(FALSE)
    \/ Tick
    \/ \E key \in Keys : CacheDelete(key)
    \/ CacheClear

SpecCache == InitCache /\ [][NextCache]_vars

(***************************************************************************)
(* analyze_batch with parallel=True: asyncio.gather runs one analyze call  *)
(* per text on the same service instance.  A call runs until it awaits     *)
(* something that suspends it: the cache provider's get and set, and the   *)
(* marker collection's find inside initial_scan and contextual_rescan.     *)
(* The enricher is the one that is always available.  pc of a task:        *)
(* "created", "get", "scan1", "scan3", "set", "done".                      *)
(***************************************************************************)
BatchSize == 2    \* texts handed to analyze_batch

Put(f, k, v) == [x \in DOMAIN f \cup {k} |-> IF x = k THEN v ELSE f[x]]

NewTask(txt) ==
    [pc |-> "created", text |-> txt, detected_markers |-> <<>>,
     metadata |-> EmptyMetadata, tokens |-> <<>>, results |-> NoResult,
     performance_metrics |-> NoTimings]

InitBatch ==
    /\ di = TRUE /\ provider = "redis"
    /\ pc = "batch"
    /\ schema_id \in Schemas \ {None}
    /\ tasks \in [1..BatchSize -> {NewTask(txt) : txt \in Texts}]
    /\ phase_timings = NoTimings
    /\ text = <<>> /\ detected_markers = <<>> /\ metadata = EmptyMetadata
    /\ tokens = <<>> /\ sentences = <<>>
    /\ results = NoResult
    /\ cache = [k \in Keys |-> NoEntry]
    /\ now = 0
    /\ runs = 0
    /\ trace = <<>> /\ faults = {} /\ calls = {}
    /\ held = NoEntry /\ expected = NoEntry
    /\ valid = [k \in Keys |-> NoEntry]
    /\ prev_markers = <<>> /\ last_in = Nil /\ repeated = FALSE
    /\ NoCheck /\ NoAux

BatchUnchanged ==
    UNCHANGED <<ctx_vars, run_vars, now, valid, cfg_vars, merge_vars,
                engine_vars, aux_vars>>

\* analyze up to "await self._check_cache(cache_key)"
TaskStart(r) ==
    /\ pc = "batch" /\ tasks[r].pc = "created"
    /\ tasks' = [tasks EXCEPT ![r].pc = "get"]
    /\ UNCHANGED <<cache, phase_timings>>
    /\ BatchUnchanged

\* the lookup has answered: return the cached envelope, or go on into
\* _phase1_initial_scan up to the find of initial_scan
TaskAfterGet(r) ==
    /\ pc = "batch" /\ tasks[r].pc = "get"
    /\ LET key == GenerateCacheKey(tasks[r].text, schema_id)
           cached == CheckCache(cache, key, now, "ok")
       IN /\ cache' = CacheAfterCheck(cache, key, now, "ok", provider)
          /\ tasks' = IF cached # NoResult
                      THEN [tasks EXCEPT ![r].pc = "done",
                                         ![r].results = cached]
                      ELSE [tasks EXCEPT ![r].pc = "scan1"]
    /\ UNCHANGED phase_timings
    /\ BatchUnchanged

\* initial_scan has its markers: the rest of _phase1_initial_scan, all of
\* _phase2_nlp_enrichment, and _phase3_contextual_rescan up to the find of
\* contextual_rescan
TaskPhase1(r) ==
    /\ pc = "batch" /\ tasks[r].pc = "scan1"
    /\ LET initial_markers == InitialScan(tasks[r].text, schema_id)
       IN tasks' = [tasks EXCEPT
              ![r].pc = "scan3",
              ![r].detected_markers = initial_markers,
              ![r].tokens = Split(tasks[r].text),
              ![r].metadata = [tasks[r].metadata EXCEPT
                  !.phase1_marker_count = Len(initial_markers),
                  !.nlp_service = "dummy",
                  !.phase2_enrichment =
                      Some([tokens |-> Len(Split(tasks[r].text)),
                            sentences |-> 1, nlp_service |-> "dummy"])]]
    /\ phase_timings' = Put(Put(phase_timings, "phase1_initial_scan", r),
                            "phase2_nlp_enrichment", r)
    /\ UNCHANGED cache
    /\ BatchUnchanged

\* contextual_rescan has its markers: the rest of
\* _phase3_contextual_rescan, _prepare_results, and _cache_results up to
\* the provider's set
TaskPhase3(r) ==
    /\ pc = "batch" /\ tasks[r].pc = "scan3"
    /\ LET t == tasks[r]
           contextual_markers ==
               ContextualRescan(t.detected_markers, t.tokens, schema_id)
           merged == MergeMarkers(t.detected_markers, contextual_markers)
           meta == [t.metadata EXCEPT
                       !.phase3_markers_added =
                           Len(merged) - Len(t.detected_markers)]
       IN tasks' = [tasks EXCEPT
              ![r].pc = "set",
              ![r].detected_markers = merged,
              ![r].metadata = meta,
              ![r].results = PrepareResults(GenerateRequestId(r), t.text,
                                            schema_id, merged, meta)]
    /\ phase_timings' = Put(phase_timings, "phase3_contextual_rescan", r)
    /\ UNCHANGED cache
    /\ BatchUnchanged

\* the set has answered: the finally clause of analyze copies
\* self._phase_timings into the envelope
TaskFinish(r) ==
    /\ pc = "batch" /\ tasks[r].pc = "set"
    /\ cache' = CacheResults(cache,
                             GenerateCacheKey(tasks[r].text, schema_id),
                             tasks[r].results, now, "ok")
    /\ phase_timings' = Put(phase_timings, "total", r)
    /\ tasks' = [tasks EXCEPT ![r].pc = "done",
                              ![r].performance_metrics = phase_timings']
    /\ BatchUnchanged

NextBatch ==
    \E r \in 1..BatchSize :
        \/ TaskStart(r)
        \/ TaskAfterGet(r)
        \/ TaskPhase1(r)
        \/ TaskPhase3(r)
        \/ TaskFinish(r)

SpecBatch == InitBatch /\ [][NextBatch]_vars

(***************************************************************************)
(* check_activation called on a context: the tokens, the detected markers  *)
(* with their matched examples, the sentiment scores and the detected-id   *)
(* set are the arguments.  The engine keeps no state between calls, so one *)
(* call is followed on each context.                                       *)
(***************************************************************************)
S_N == <<"S", "N">>
C_X == <<"C", "X">>

\* context.tokens; <<>>: no token data
EngineTokens ==
    { <<>>,
      << <<"a">>, <<"aber">>, <<"b">> >>,
      << <<"a">>, <<"b">> >>,
      << <<"a">>, <<"b">>, <<"a">> >>,
      << <<"nicht">>, <<"A">>, <<"b">>, <<"?">> >>,
      << <<"a">>, <<"x">>, <<"x">>, <<"b">>, <<"wirklich">> >>,
      << <<"a">>, <<"aber">>, <<"b">>, <<"definitiv">> >>,
      << <<"b">>, <<"vielleicht">>, <<"a">>, <<"aber">>, <<"n">> >> }

\* context.detected_markers: signal markers with the examples that matched
Signal(id, example) ==
    MarkerDict(id, Conf(30), "initial", <<example>>, <<>>, FALSE)

EngineDetected ==
    { <<>>,
      << Signal(S_A, <<"a">>) >>,
      << Signal(S_A, <<"a">>), Signal(S_B, <<"b">>) >>,
      << Signal(S_A, <<"a">>), Signal(S_B, <<"b">>), Signal(S_N, <<"n">>) >> }

EngineIds == { {}, {S_A}, {S_A, S_B}, {S_A, S_B, S_N} }

EngineScores ==
    { Nil,
      Some([positive |-> Conf(70), negative |-> Conf(20), neutral |-> Conf(10)]),
      Some([positive |-> Conf(45), negative |-> Conf(50), neutral |-> Conf(5)]) }

\* marker.activation
EngineActivations ==
    { [type |-> "ALL"], [type |-> "all"], [type |-> "ANY"], [type |-> "FOO"],
      [type |-> "ANY_N"], [type |-> "ANY_N", count |-> 1],
      [type |-> "ANY_N", count |-> 3],
      [type |-> "TEMPORAL"],
      [type |-> "TEMPORAL", window |-> 1, strict_order |-> TRUE],
      [type |-> "TEMPORAL", window |-> 1],
      [type |-> "TEMPORAL", window |-> 0],
      [type |-> "SENTIMENT"],
      [type |-> "SENTIMENT", alignment |-> "contrasting",
       min_confidence |-> Conf(40)],
      [type |-> "SENTIMENT", alignment |-> "mixed"],
      [type |-> "PROXIMITY"], [type |-> "proximity", max_distance |-> 2],
      [type |-> "PROXIMITY", max_distance |-> 0],
      [type |-> "NEGATION"], [type |-> "NEGATION", negation_window |-> 1],
      [type |-> "NEGATION", allow_negation |-> TRUE],
      [type |-> "PATTERN"], [type |-> "PATTERN", pattern |-> "cause_effect"],
      [type |-> "PATTERN", pattern |-> "other"],
      [type |-> "COMPOSITE"],
      [type |-> "COMPOSITE", rules |-> << [type |-> "ALL"], [type |-> "ANY"] >>],
      [type |-> "COMPOSITE", operator |-> "OR",
       rules |-> << [type |-> "PROXIMITY", max_distance |-> 2],
                   [type |-> "NEGATION"] >>],
      [type |-> "COMPOSITE", operator |-> "OR",
       rules |-> << [type |-> "COMPOSITE", rules |-> << [type |-> "ANY"] >>],
                   [type |-> "ALL"] >>] }

Composed(composed_of, activation) ==
    MarkerDoc(C_X, "s1", << <<"x">> >>, <<>>, << <<"z">> >>, Some(composed_of),
              activation)

EngineMarkers ==
    {Composed(composed_of, activation) :
        composed_of \in {<<S_A, S_B>>, <<S_A, S_B, S_N>>},
        activation \in EngineActivations}
    \cup {Composed(<<S_A, S_B>>, NoActivation),
          Composed(<<>>, [type |-> "ANY"])}

InitEngine ==
    /\ di = FALSE /\ provider = "none"
    /\ pc = "engine"
    /\ text = <<>> /\ schema_id = "s1"
    /\ tokens \in EngineTokens
    /\ detected_markers \in EngineDetected
    /\ checked_ids \in EngineIds
    /\ sentiment_scores \in EngineScores
    /\ checked_marker = NoMarker
    /\ rule_result = NoOutcome /\ outcome = NoOutcome
    /\ metadata = EmptyMetadata /\ sentences = <<>>
    /\ results = NoResult
    /\ cache = [k \in Keys |-> NoEntry]
    /\ now = 0
    /\ runs = 0
    /\ trace = <<>> /\ faults = {} /\ calls = {}
    /\ held = NoEntry /\ expected = NoEntry
    /\ valid = [k \in Keys |-> NoEntry]
    /\ prev_markers = <<>> /\ last_in = Nil /\ repeated = FALSE
    /\ NoBatch /\ NoAux

\* the rule of the marker is _check_composite_rule
IsComposite(m) ==
    ~DefaultRule(m) /\ Upper(Get(m.activation, "type", "ALL")) = "COMPOSITE"

\* the orders list(set(all_components)) may give
ComponentOrders(m, components) ==
    IF IsComposite(m)
    THEN {order \in [1..Len(components) -> Range(components)] :
             Range(order) = Range(components)}
    ELSE {components}

\* one call check_activation(marker, context, detected_marker_ids)
CheckActivationCall(m) ==
    /\ pc = "engine" /\ checked_marker = NoMarker
    /\ LET result == RuleResult(m, tokens, detected_markers, sentiment_scores,
                                checked_ids)
           returned == CheckActivation(m, tokens, detected_markers,
                                       sentiment_scores, checked_ids)
       IN \E order \in ComponentOrders(m, returned.components) :
             /\ rule_result' = [result EXCEPT !.components = order]
             /\ outcome' = [returned EXCEPT !.components = order]
    /\ checked_marker' = m
    /\ UNCHANGED <<ctx_vars, run_vars, cache_vars, cfg_vars, merge_vars,
                   batch_vars, checked_ids, sentiment_scores, aux_vars>>

NextEngine == \E m \in EngineMarkers : CheckActivationCall(m)

SpecEngine == InitEngine /\ [][NextEngine]_vars

(***************************************************************************)
(* MarkerService.initial_scan and contextual_rescan over the documents     *)
(* the store returns: pc "scan", then "rescan", then "scanned"             *)
(***************************************************************************)
MaxDocs == 2      \* most documents one find() returns

S_PP == <<"S", "PP">>
S_SIG == <<"S", "SIG">>
S_RE == <<"S", "RE">>
MM_C == <<"MM", "C">>
C_AQ == <<"C", "AQ">>
C_NONE == <<"C", "NONE">>
C_DIV == <<"C", "DIV">>

\* A_/S_ documents: plain examples, one and two patterns, a signal, a
\* document Marker() refuses, a pattern re.search refuses
AtomicDocs ==
    { MarkerDoc(S_A, "s1", << <<"a">> >>, <<>>, << <<"z">> >>, Nil,
                NoActivation),
      MarkerDoc(S_B, "s1", << <<"b">>, <<"a", " ", "b">> >>, << <<"b">> >>,
                << <<"z">> >>, Nil, NoActivation),
      MarkerDoc(S_PP, "s1", << <<"b">> >>, << <<"a">>, <<"b">> >>,
                << <<"z">> >>, Nil, NoActivation),
      MarkerDoc(S_SIG, "s1", << <<"x">> >>, <<>>, << <<"q">>, <<"b">> >>, Nil,
                NoActivation),
      MarkerDoc(S_BAD, "s1", << >>, <<>>, << <<"a">> >>, Nil, NoActivation),
      MarkerDoc(S_RE, "s1", << <<"b">> >>, << BadPattern >>, << <<"a">> >>,
                Nil, NoActivation),
      MarkerDoc(A_Q, "s1", << <<"?">> >>, <<>>, << <<"c">> >>, Nil,
                NoActivation) }

\* C_/MM_ documents: over signal ids, over an atomic id, over another
\* composed marker, without composed_of, with a rule that divides by zero
ComplexDocs ==
    { MarkerDoc(C_AB, "s1", << <<"x">> >>, <<>>, << <<"z">> >>,
                Some(<<S_A, S_B>>), [type |-> "ALL"]),
      MarkerDoc(MM_C, "s1", << <<"x">> >>, <<>>, << <<"z">> >>,
                Some(<<C_AB, S_A>>), [type |-> "ALL"]),
      MarkerDoc(C_AQ, "s1", << <<"x">> >>, <<>>, << <<"z">> >>,
                Some(<<A_Q, S_A>>), [type |-> "ANY"]),
      MarkerDoc(C_NONE, "s1", << <<"x">> >>, <<>>, << <<"z">> >>, Nil,
                [type |-> "ANY"]),
      MarkerDoc(C_DIV, "s1", << <<"x">> >>, <<>>, << <<"z">> >>,
                Some(<<S_A, S_SIG>>),
                [type |-> "PROXIMITY", max_distance |-> 0]) }

\* what find(query).to_list(None) may return: _id is unique
DocLists(docs) ==
    UNION {{list \in [1..n -> docs] :
               \A i, j \in 1..n : list[i]._id = list[j]._id => i = j} :
           n \in 0..MaxDocs}

InitScan ==
    /\ di = FALSE /\ provider = "none"
    /\ pc = "scan"
    /\ text \in Texts /\ schema_id = "s1"
    /\ atomic_docs \in DocLists(AtomicDocs)
    /\ complex_docs \in DocLists(ComplexDocs)
    /\ activated_markers = Nil
    /\ tokens = Split(text)
    /\ detected_markers = <<>>
    /\ metadata = EmptyMetadata /\ sentences = <<>>
    /\ results = NoResult
    /\ cache = [k \in Keys |-> NoEntry]
    /\ now = 0
    /\ runs = 0
    /\ trace = <<>> /\ faults = {} /\ calls = {}
    /\ held = NoEntry /\ expected = NoEntry
    /\ valid = [k \in Keys |-> NoEntry]
    /\ prev_markers = <<>> /\ last_in = Nil /\ repeated = FALSE
    /\ NoBatch /\ NoCheck /\ NoAggregate /\ NoLayered

\* initial_scan(text, schema_id), and phase 1 storing what it returned
InitialScanCall ==
    /\ pc = "scan"
    /\ detected_markers' = InitialScanLoop(atomic_docs, text, 1)
    /\ pc' = "rescan"
    /\ UNCHANGED <<text, schema_id, metadata, tokens, sentences, results, runs,
                   trace, faults, held, expected, calls, cache_vars, cfg_vars,
                   merge_vars, batch_vars, engine_vars, atomic_docs,
                   complex_docs, activated_markers, agg_vars, layered_vars>>

\* contextual_rescan(context)
ContextualRescanCall ==
    /\ pc = "rescan"
    /\ activated_markers' =
           Some(ContextualRescanLoop(complex_docs, tokens, detected_markers, 1))
    /\ pc' = "scanned"
    /\ UNCHANGED <<ctx_vars, results, runs, trace, faults, held, expected,
                   calls, cache_vars, cfg_vars, merge_vars, batch_vars,
                   engine_vars, atomic_docs, complex_docs, agg_vars,
                   layered_vars>>

NextScan == InitialScanCall \/ ContextualRescanCall

SpecScan == InitScan /\ [][NextScan]_vars

(***************************************************************************)
(* detect/scoring: SCR_score_models.py, SCR_time_series_aggregator.py      *)
(*                                                                         *)
(* Scores are integers in units of 10^-4.  An event carries its age, the   *)
(* seconds between its timestamp and the now that aggregate_events reads.  *)
(***************************************************************************)
MaxEvents == 3    \* longest events list handed to aggregate_events

Unit == 10000

\* logistic(raw, k) for k in {0, 1}, raw a multiple of 0.5
LogisticTable ==
    <<5000, 6225, 7311, 8176, 8808, 9241, 9526, 9707, 9820, 9890, 9933, 9959,
      9975, 9985, 9991, 9994, 9997>>

Logistic(raw, k) ==
    IF k = 0 THEN 5000
    ELSE LogisticTable[Min(Len(LogisticTable), (2 * raw) \div Unit + 1)]

Linear(raw) == raw

\* step(raw, threshold)
Step(raw, threshold) == IF raw >= threshold * Unit THEN Unit ELSE 0

\* the keys of a scoring dict that are absent hold Nil
Scoring(formula, threshold, decay, max_score, k) ==
    [formula |-> formula, threshold |-> threshold, base |-> Nil,
     weight |-> Nil, decay |-> decay, max_score |-> max_score, k |-> k]

\* dict.get(key, default) on a dict whose absent keys hold Nil
Opt(value, default) == IF value = Nil THEN default ELSE value[1]

\* apply_formula(raw, scoring)
ApplyFormula(raw, scoring) ==
    IF Opt(scoring.formula, "linear") = "logistic"
    THEN Logistic(raw, Opt(scoring.k, 0))
    ELSE IF Opt(scoring.formula, "linear") = "step"
    THEN Step(raw, Opt(scoring.threshold, 0))
    ELSE Linear(raw)

\* math.exp(-decay * age / 3600) for decay 1.0
ExpDecay(age) ==
    IF age = 0 THEN 10000 ELSE IF age = 10 THEN 9972
    ELSE IF age = 30 THEN 9917 ELSE 3292

Event(age, weight, value) == [age |-> age, weight |-> weight, value |-> value]

\* e.get("weight", e.get("value", 0.0))
EventWeight(e) ==
    IF e.weight # Nil THEN e.weight[1] ELSE Opt(e.value, 0)

Window(messages, seconds) == [messages |-> messages, seconds |-> seconds]

\* the marker type class of a marker id
MarkerType(id) ==
    IF id = Nil THEN ""
    ELSE IF id[1] = "MM" THEN "MEMA"
    ELSE IF id[1] = "A" THEN "ATO"
    ELSE IF id[1] = "S" THEN "SEM"
    ELSE IF id[1] = "C" THEN "CLU"
    ELSE ""

\* DEFAULT_CONFIG: the windows of each type class and the scoring defaults
DefaultConfig(windows, scoring) == [windows |-> windows, scoring |-> scoring]

NoScoring == Scoring(Nil, Nil, Nil, Nil, Nil)

NoWindow == Window(Nil, Nil)

DefaultConfigs ==
    { DefaultConfig([t \in {"ATO", "SEM", "CLU", "MEMA"} |-> NoWindow],
                    NoScoring),
      DefaultConfig([t \in {"ATO", "SEM", "CLU", "MEMA"} |->
                        IF t = "SEM" THEN Window(Some(1), Some(60))
                        ELSE NoWindow],
                    Scoring(Nil, Some(2), Nil, Nil, Nil)) }

\* DEFAULT_CONFIG.get("windows", {}).get(marker_type, {})
Defaults(config, marker) ==
    IF MarkerType(marker.id) = "" THEN NoWindow
    ELSE config.windows[MarkerType(marker.id)]

\* window.get(key, defaults.get(key))
Override(local, default) == IF local # Nil THEN local ELSE default

\* filtered[-messages:]
LastSlice(events, messages) ==
    IF messages > 0
    THEN SubSeq(events, Max(1, Len(events) - messages + 1), Len(events))
    ELSE SubSeq(events, 1 - messages, Len(events))

\* the window filter of aggregate_events
WindowFilter(marker, events, config) ==
    LET messages == Override(marker.window.messages,
                             Defaults(config, marker).messages)
        seconds == Override(marker.window.seconds,
                            Defaults(config, marker).seconds)
        Recent(e) == e.age <= seconds[1]
        Seconds(kept) ==
            IF seconds # Nil THEN SelectSeq(kept, Recent) ELSE kept
    IN Seconds(IF messages # Nil THEN LastSlice(events, messages[1])
               ELSE events)

RECURSIVE TotalWeight(_, _)
TotalWeight(events, k) ==
    IF k > Len(events) THEN 0
    ELSE EventWeight(events[k]) + TotalWeight(events, k + 1)

\* {**DEFAULT_CONFIG, **marker.get("scoring", {})}
MergedScoring(marker, config) ==
    [key \in DOMAIN marker.scoring |->
        Override(marker.scoring[key], config.scoring[key])]

\* what aggregate_events returns; raised: it left by an exception
Aggregate(raw_score, score) ==
    [raised |-> FALSE, raw_score |-> raw_score, score |-> score]

AggregateRaised == [raised |-> TRUE, raw_score |-> 0, score |-> 0]

\* the decay pass and the max_score clamp
Decayed(score, scoring, kept) ==
    IF Opt(scoring.decay, 0) # 0
    THEN (score * ExpDecay(MinOf({kept[i].age : i \in DOMAIN kept}))) \div Unit
    ELSE score

Clamped(score, scoring) ==
    IF scoring.max_score # Nil THEN Min(score, scoring.max_score[1] * Unit)
    ELSE score

\* aggregate_events(marker, events)
AggregateEvents(marker, events, config) ==
    LET Scored(kept, scoring, raw_score) ==
            IF Opt(scoring.decay, 0) # 0 /\ kept = <<>> THEN AggregateRaised
            ELSE Aggregate(raw_score,
                           Clamped(Decayed(ApplyFormula(raw_score, scoring),
                                           scoring, kept),
                                   scoring))
        Weighed(kept, scoring) ==
            IF Opt(scoring.threshold, 1) = 0 THEN AggregateRaised
            ELSE Scored(kept, scoring,
                        ((TotalWeight(kept, 1) * Unit)
                            \div Opt(scoring.threshold, 1))
                        * Opt(scoring.base, 1) * Opt(scoring.weight, 1))
    IN IF events = <<>> THEN Aggregate(0, 0)
       ELSE Weighed(WindowFilter(marker, events, config),
                    MergedScoring(marker, config))

AggMarker(id, window, scoring) ==
    [id |-> id, window |-> window, scoring |-> scoring]

A_TEST == <<"A", "TEST">>

\* the marker definitions handed to aggregate_events
AggMarkers ==
    { AggMarker(A_TEST, Window(Some(2), Some(60)),
                Scoring(Some("linear"), Some(2), Some(1), Some(10), Nil)),
      AggMarker(A_TEST, Window(Some(0), Nil), NoScoring),
      AggMarker(A_TEST, Window(Some(1), Nil),
                Scoring(Some("step"), Some(1), Nil, Nil, Nil)),
      AggMarker(A_TEST, Window(Nil, Some(60)),
                Scoring(Some("linear"), Nil, Some(1), Nil, Nil)),
      AggMarker(A_TEST, Window(Nil, Some(60)),
                Scoring(Some("linear"), Nil, Some(0), Some(1), Nil)),
      AggMarker(S_A, NoWindow, Scoring(Some("logistic"), Nil, Nil, Nil, Some(1))),
      AggMarker(S_A, Window(Some(2), Nil),
                Scoring(Some("logistic"), Nil, Nil, Some(0), Nil)),
      AggMarker(MM_ANY, NoWindow, Scoring(Some("linear"), Some(0), Nil, Nil, Nil)),
      AggMarker(Nil, NoWindow, Scoring(Some("FOO"), Nil, Nil, Some(1), Nil)) }

\* the events: 4000, 30 and 10 seconds old, with a weight, a value, neither
AggEvents ==
    { Event(4000, Some(1), Nil), Event(30, Some(1), Nil),
      Event(10, Some(1), Nil), Event(10, Nil, Some(2)), Event(30, Nil, Nil) }

EventLists == UNION {[1..n -> AggEvents] : n \in 0..MaxEvents}

InitAggregate ==
    /\ di = FALSE /\ provider = "none"
    /\ pc = "aggregate"
    /\ default_config \in {Some(c) : c \in DefaultConfigs}
    /\ agg_marker \in AggMarkers
    /\ agg_events \in EventLists
    /\ filtered = <<>> /\ agg_result = NoOutcome
    /\ text = <<>> /\ schema_id = None
    /\ detected_markers = <<>> /\ metadata = EmptyMetadata
    /\ tokens = <<>> /\ sentences = <<>>
    /\ results = NoResult
    /\ cache = [k \in Keys |-> NoEntry]
    /\ now = 0
    /\ runs = 0
    /\ trace = <<>> /\ faults = {} /\ calls = {}
    /\ held = NoEntry /\ expected = NoEntry
    /\ valid = [k \in Keys |-> NoEntry]
    /\ prev_markers = <<>> /\ last_in = Nil /\ repeated = FALSE
    /\ NoBatch /\ NoCheck /\ NoScan /\ NoLayered

\* one call aggregate_events(marker, events)
AggregateEventsCall ==
    /\ pc = "aggregate"
    /\ filtered' = IF agg_events = <<>> THEN <<>>
                   ELSE WindowFilter(agg_marker, agg_events,
                                     default_config[1])
    /\ agg_result' = AggregateEvents(agg_marker, agg_events, default_config[1])
    /\ pc' = "aggregated"
    /\ UNCHANGED <<ctx_vars, results, runs, trace, faults, held, expected,
                   calls, cache_vars, cfg_vars, merge_vars, batch_vars,
                   engine_vars, scan_vars, default_config, agg_marker,
                   agg_events, layered_vars>>

NextAggregate == AggregateEventsCall

SpecAggregate == InitAggregate /\ [][NextAggregate]_vars

(***************************************************************************)
(* LayeredCache over a MemoryCache (L1) and a RedisCache (L2), looked at   *)
(* on one key.  get, set and delete are coroutines: each awaits one call   *)
(* of a layer after the other, and other coroutines run in between.  A     *)
(* MemoryCache call runs under its lock and a Redis command runs on the    *)
(* server, so each layer call is one step.  pc of a call: "l1_get",        *)
(* "l2_get", "promote"; "l1_set", "l2_set"; "l1_delete", "l2_delete";      *)
(* "done".  The clock counts ticks of 150 seconds; a call takes far less   *)
(* (the Redis socket timeout is 5 seconds), so the clock moves between     *)
(* calls.                                                                  *)
(***************************************************************************)
MaxOps == 3       \* get, set and delete calls begun on the key
MaxClock == 27    \* clock ticks

L1_MAX_TTL == 24  \* min(ttl or 3600, 3600)
PROMOTE_TTL == 2  \* ttl=300

CacheValues == {"v1", "v2"}

\* the instants at which calls are made: at once, and after the hour an
\* L1 entry lives at most
Instants == {0} \cup ((L1_MAX_TTL + 1)..MaxClock)

\* the ttl argument of set; 0: None
Ttls == {0, L1_MAX_TTL + PROMOTE_TTL}

\* a Redis key written with SETEX is gone once ttl seconds have passed
RedisExpired(entry, t) == entry.expires_at # Nil /\ t >= entry.expires_at[1]

\* MemoryCache.get on the key: Nil for None
MemoryCacheGet(entry, t) ==
    IF ~entry.present \/ IsExpired(entry, t) THEN Nil ELSE Some(entry.value)

\* RedisCache.get on the key; a RedisError is logged and gives None
RedisCacheGet(entry, t, out) ==
    IF out = "error" \/ ~entry.present \/ RedisExpired(entry, t) THEN Nil
    ELSE Some(entry.value)

\* RedisCache.set; a RedisError is logged and the key keeps what it held
RedisCacheSet(entry, value, ttl, t, out) ==
    IF out = "error" THEN entry ELSE CacheEntry(value, ttl, t)

\* RedisCache.delete
RedisCacheDelete(entry, out) == IF out = "error" THEN entry ELSE NoEntry

\* a call of LayeredCache on the key.  clean: no set or delete ran while
\* it did; failed: a Redis command of the call ended in an error; after:
\* the write that had completed last when the call began
CacheOp(op, value, ttl, t, clean, after) ==
    [op |-> op, value |-> value, ttl |-> ttl,
     pc |-> IF op = "get" THEN "l1_get"
            ELSE IF op = "set" THEN "l1_set" ELSE "l1_delete",
     read |-> Nil, result |-> Nil, at |-> t,
     clean |-> clean, failed |-> FALSE, after |-> after]

IsWrite(o) == o.op \in {"set", "delete"}

WriteInFlight ==
    \E i \in DOMAIN cache_ops : IsWrite(cache_ops[i]) /\ cache_ops[i].pc # "done"

\* what cache_ops keeps of a completed set or delete
Returned(o) ==
    [CacheOp(o.op, "-", 0, 0, TRUE, NoWrite) EXCEPT !.pc = "done"]

\* what last_write keeps of a completed set or delete
Completed(o) ==
    [op |-> o.op, value |-> o.value, ttl |-> o.ttl, at |-> o.at,
     clean |-> o.clean, failed |-> o.failed]

layered_rest == <<ctx_vars, results, runs, trace, faults, held, expected,
                  calls, cache, valid, cfg_vars, merge_vars, batch_vars,
                  engine_vars, scan_vars, agg_vars>>

InitLayered ==
    /\ di = TRUE /\ provider = "layered"
    /\ pc = "layered"
    /\ text = <<>> /\ schema_id = "s1"
    /\ tokens = <<>> /\ detected_markers = <<>>
    /\ metadata = EmptyMetadata /\ sentences = <<>>
    /\ results = NoResult
    /\ cache = [k \in Keys |-> NoEntry]
    /\ now = 0
    /\ runs = 0
    /\ trace = <<>> /\ faults = {} /\ calls = {}
    /\ held = NoEntry /\ expected = NoEntry
    /\ valid = [k \in Keys |-> NoEntry]
    /\ prev_markers = <<>> /\ last_in = Nil /\ repeated = FALSE
    /\ NoBatch /\ NoCheck /\ NoScan /\ NoAggregate
    /\ l1_cache = NoEntry
    /\ l2_cache \in {NoEntry, CacheEntry("v1", 0, 0)}
    /\ cache_ops = <<>> /\ last_write = NoWrite

\* a coroutine calls get(key), set(key, value, ttl) or delete(key)
BeginOp(op, value, ttl) ==
    /\ pc = "layered"
    /\ Len(cache_ops) < MaxOps
    /\ cache_ops' =
          Append(IF op = "get" THEN cache_ops
                 ELSE [i \in DOMAIN cache_ops |->
                          IF cache_ops[i].pc # "done"
                          THEN [cache_ops[i] EXCEPT !.clean = FALSE]
                          ELSE cache_ops[i]],
                 CacheOp(op, value, ttl, now, ~WriteInFlight, last_write))
    /\ UNCHANGED <<pc, now, l1_cache, l2_cache, last_write, layered_rest>>

\* the steps of a call leave everything but the two layers and the calls
LayerStep == UNCHANGED <<pc, now, layered_rest>>

\* get: value = await self.l1_cache.get(key)
L1Get(i) ==
    /\ pc = "layered" /\ i \in DOMAIN cache_ops
    /\ cache_ops[i].pc = "l1_get"
    /\ LET value == MemoryCacheGet(l1_cache, now)
       IN /\ cache_ops' =
                [cache_ops EXCEPT ![i] =
                    IF value # Nil
                    THEN [@ EXCEPT !.pc = "done", !.result = value]
                    ELSE [@ EXCEPT !.pc = "l2_get"]]
          /\ l1_cache' = IF l1_cache.present /\ IsExpired(l1_cache, now)
                         THEN NoEntry ELSE l1_cache
    /\ UNCHANGED <<l2_cache, last_write>>
    /\ LayerStep

\* get: value = await self.l2_cache.get(key)
L2Get(i, out) ==
    /\ pc = "layered" /\ i \in DOMAIN cache_ops
    /\ cache_ops[i].pc = "l2_get"
    /\ LET value == RedisCacheGet(l2_cache, now, out)
       IN cache_ops' =
             [cache_ops EXCEPT ![i] =
                 IF value # Nil
                 THEN [@ EXCEPT !.pc = "promote", !.read = value]
                 ELSE [@ EXCEPT !.pc = "done", !.result = Nil,
                                !.failed = (out = "error")]]
    /\ UNCHANGED <<l1_cache, l2_cache, last_write>>
    /\ LayerStep

\* get: await self.l1_cache.set(key, value, ttl=300); return value
Promote(i) ==
    /\ pc = "layered" /\ i \in DOMAIN cache_ops
    /\ cache_ops[i].pc = "promote"
    /\ l1_cache' = CacheEntry(cache_ops[i].read[1], PROMOTE_TTL, now)
    /\ cache_ops' = [cache_ops EXCEPT ![i] =
                        [@ EXCEPT !.pc = "done",
                                  !.result = cache_ops[i].read]]
    /\ UNCHANGED <<l2_cache, last_write>>
    /\ LayerStep

\* set: await self.l1_cache.set(key, value, ttl=min(ttl or 3600, 3600))
L1Set(i) ==
    /\ pc = "layered" /\ i \in DOMAIN cache_ops
    /\ cache_ops[i].pc = "l1_set"
    /\ l1_cache' = CacheEntry(cache_ops[i].value,
                              Min(IF cache_ops[i].ttl # 0 THEN cache_ops[i].ttl
                                  ELSE L1_MAX_TTL,
                                  L1_MAX_TTL),
                              now)
    /\ cache_ops' = [cache_ops EXCEPT ![i].pc = "l2_set"]
    /\ UNCHANGED <<l2_cache, last_write>>
    /\ LayerStep

\* set: await self.l2_cache.set(key, value, ttl=ttl)
L2Set(i, out) ==
    /\ pc = "layered" /\ i \in DOMAIN cache_ops
    /\ cache_ops[i].pc = "l2_set"
    /\ l2_cache' = RedisCacheSet(l2_cache, cache_ops[i].value,
                                 cache_ops[i].ttl, now, out)
    /\ cache_ops' = [cache_ops EXCEPT ![i] = Returned(@)]
    /\ last_write' = Completed([cache_ops[i] EXCEPT
                                    !.failed = (out = "error")])
    /\ UNCHANGED l1_cache
    /\ LayerStep

\* delete: await self.l1_cache.delete(key)
L1Delete(i) ==
    /\ pc = "layered" /\ i \in DOMAIN cache_ops
    /\ cache_ops[i].pc = "l1_delete"
    /\ l1_cache' = NoEntry
    /\ cache_ops' = [cache_ops EXCEPT ![i].pc = "l2_delete"]
    /\ UNCHANGED <<l2_cache, last_write>>
    /\ LayerStep

\* delete: await self.l2_cache.delete(key)
L2Delete(i, out) ==
    /\ pc = "layered" /\ i \in DOMAIN cache_ops
    /\ cache_ops[i].pc = "l2_delete"
    /\ l2_cache' = RedisCacheDelete(l2_cache, out)
    /\ cache_ops' = [cache_ops EXCEPT ![i] = Returned(@)]
    /\ last_write' = Completed([cache_ops[i] EXCEPT
                                    !.failed = (out = "error")])
    /\ UNCHANGED l1_cache
    /\ LayerStep

\* time passes
LayeredTick(t) ==
    /\ pc = "layered"
    /\ \A i \in DOMAIN cache_ops : cache_ops[i].pc = "done"
    /\ t > now
    /\ now' = t
    /\ UNCHANGED <<pc, layered_vars, layered_rest>>

NextLayered ==
    \/ BeginOp("get", "-", 0)
    \/ \E value \in CacheValues, ttl \in Ttls : BeginOp("set", value, ttl)
    \/ BeginOp("delete", "-", 0)
    \/ \E i \in 1..MaxOps : L1Get(i)
    \/ \E i \in 1..MaxOps, out \in {"ok", "error"} : L2Get(i, out)
    \/ \E i \in 1..MaxOps : Promote(i)
    \/ \E i \in 1..MaxOps : L1Set(i)
    \/ \E i \in 1..MaxOps, out \in {"ok", "error"} : L2Set(i, out)
    \/ \E i \in 1..MaxOps : L1Delete(i)
    \/ \E i \in 1..MaxOps, out \in {"ok", "error"} : L2Delete(i, out)
    \/ \E t \in Instants : LayeredTick(t)

SpecLayered == InitLayered /\ [][NextLayered]_vars

(***************************************************************************)
(* Properties of _merge_markers                                            *)
(***************************************************************************)
\* the confidences the last merged list carries for one marker id
NewConfidences(id) ==
    {GetConfidence(last_in[1][k]) :
        k \in {j \in DOMAIN last_in[1] : last_in[1][j].marker_id = id}}

SetMax(S) == CHOOSE x \in S : \A y \in S : y <= x

\* C1: after phase 1 and after any number of _merge_markers calls with any
\* list of new markers, no two entries of context.detected_markers carry
\* the same marker_id.
C1_NoDuplicateIds ==
    \A i, j \in DOMAIN detected_markers :
        i # j => detected_markers[i].marker_id # detected_markers[j].marker_id

\* C2: an entry whose marker_id was present when _merge_markers was called
\* ends with the confidence max(old, new); it is overwritten, with the delta
\* new - old as contextual_boost, only if new is strictly greater, and is
\* otherwise left as it was; no entry of that id is appended or removed, so
\* no confidence ever decreases.
C2_MergeKeepsHigherConfidence ==
    last_in # Nil =>
        /\ Len(detected_markers) >= Len(prev_markers)
        /\ \A i \in DOMAIN prev_markers :
              LET old == prev_markers[i]
                  cur == detected_markers[i]
                  news == NewConfidences(old.marker_id)
              IN /\ cur.marker_id = old.marker_id
                 /\ cur.confidence = SetMax(news \cup {old.confidence})
                 /\ cur.confidence >= old.confidence
                 /\ (\A c \in news : c <= old.confidence) => cur = old
                 /\ \A c \in news :
                       news = {c} /\ c > old.confidence =>
                           /\ cur.confidence_updated
                           /\ cur.contextual_boost = c - old.confidence
        /\ \A i \in DOMAIN detected_markers :
              i > Len(prev_markers) =>
                  detected_markers[i].marker_id \notin Ids(prev_markers)

\* C2 witness: a merge has raised the confidence of an entry that was there
\* and has left another, offered a confidence that is not higher, as it was
C2_Witness ==
    /\ pc = "merge" /\ last_in # Nil
    /\ \E i \in DOMAIN prev_markers :
          /\ NewConfidences(prev_markers[i].marker_id) # {}
          /\ detected_markers[i].confidence > prev_markers[i].confidence
          /\ detected_markers[i].contextual_boost > 0
    /\ \E i \in DOMAIN prev_markers :
          /\ NewConfidences(prev_markers[i].marker_id) # {}
          /\ detected_markers[i] = prev_markers[i]

\* C3: merging the same list of contextual markers a second time leaves
\* detected_markers unchanged: the same entries, order and confidences.
C3_MergeIdempotent == repeated => detected_markers = prev_markers

(***************************************************************************)
(* Properties of one analyze run                                           *)
(***************************************************************************)
IsPrefix(s, t) == Len(s) <= Len(t) /\ \A i \in DOMAIN s : s[i] = t[i]

\* what phase 1 left in context.detected_markers
Phase1Result(txt, sch) ==
    IF "phase1" \in faults THEN <<>> ELSE InitialScan(txt, sch)

\* is_available() was asked and enrich was not called
NlpUnavailable == "is_available" \in calls /\ "enrich" \notin calls

\* C4: within one analyze run the phases execute in the order Phase1,
\* Phase2, Phase3, Finalize, each at most once and each only after the one
\* before it has returned, whichever phases record errors (5 in the trace
\* is the except clause of analyze, which ends the run).
C4_PhasesInOrder ==
    /\ \/ IsPrefix(trace, <<1, 2, 3, 4>>)
       \/ \E k \in 0..3 : trace = SubSeq(<<1, 2, 3>>, 1, k) \o <<5>>
    /\ pc = "phase1" => trace = <<>>
    /\ pc = "phase2" => trace = <<1>>
    /\ pc = "phase3" => trace = <<1, 2>>
    /\ pc = "prepare" => trace = <<1, 2, 3>>
    /\ (pc = "returned" /\ results.status = "success" /\ ~results.from_cache)
          => trace = <<1, 2, 3, 4>>

\* C4 witness: a run in which all three phases recorded an error has gone
\* through the four steps
C4_Witness ==
    /\ pc = "returned" /\ trace = <<1, 2, 3, 4>>
    /\ {"phase1", "phase2", "phase3"} \subseteq faults

\* C5: when the enricher reports unavailable in phase 2, nlp_skipped is
\* set, phase 3 does not call the contextual rescan and adds no marker,
\* detected_markers stays the phase 1 result, and the envelope has
\* status success and nlp_enriched false.
C5_NlpUnavailableDegrades ==
    NlpUnavailable =>
        /\ "contextual_rescan" \notin calls
        /\ pc \in {"phase3", "prepare", "except"} =>
              /\ metadata.nlp_skipped
              /\ metadata.phase3_markers_added = 0
              /\ detected_markers = Phase1Result(text, schema_id)
        /\ (pc = "returned" /\ "metrics" \notin faults) =>
              /\ results.status = "success"
              /\ ~results.nlp_enriched
              /\ results.markers_added = 0
              /\ results.markers = Phase1Result(results.text, results.schema_id)

\* C5 witness: a run with the enricher unavailable has returned the markers
\* of phase 1
C5_Witness ==
    /\ pc = "returned" /\ NlpUnavailable /\ trace = <<1, 2, 3, 4>>
    /\ results.status = "success" /\ Len(results.markers) > 0

PhaseFault(n) == <<"phase1", "phase2", "phase3">>[n]
ErrorKey(n) == <<"phase1_error", "phase2_error", "phase3_error">>[n]

\* C6: if the collaborator call of phase N raises, the error is recorded
\* under metadata.phaseN_error, every later phase still executes (phase 3
\* leaves out the rescan only when nlp_skipped is set), the envelope has
\* status success, and the markers detected before are kept: none after a
\* phase 1 failure, those of phase 1 after a phase 3 failure.
C6_PhaseErrorsIsolated ==
    /\ \A n \in 1..3 :
          (PhaseFault(n) \in faults /\ "metrics" \notin faults) =>
              /\ pc \notin {"except", "raised"}
              /\ pc \in {"phase2", "phase3", "prepare"} => metadata[ErrorKey(n)]
              /\ pc = "returned" =>
                    /\ results.status = "success"
                    /\ results[ErrorKey(n)]
                    /\ trace = <<1, 2, 3, 4>>
    /\ ("phase1" \in faults /\ pc = "phase2") => detected_markers = <<>>
    /\ ("phase3" \in faults /\ pc = "prepare") =>
          detected_markers = Phase1Result(text, schema_id)
    /\ ("phase3" \in faults /\ pc = "returned" /\ "metrics" \notin faults) =>
          results.markers = Phase1Result(results.text, results.schema_id)
    /\ pc = "prepare" =>
          ("contextual_rescan" \in calls <=> ~metadata.nlp_skipped)

\* C6 witness: the enricher and the rescan both raised, and the run has
\* returned a success envelope that keeps the markers of phase 1
C6_Witness ==
    /\ pc = "returned" /\ {"phase2", "phase3"} \subseteq faults
    /\ results.status = "success" /\ Len(results.markers) > 0
    /\ results.phase2_error /\ results.phase3_error

\* C7: if the enricher raises in phase 2, metadata.phase2_error is
\* recorded, the enrichment fields of the context are nil when phase 3
\* starts, and phase 3 runs the contextual rescan.
C7_EnricherFailureLeavesFieldsNil ==
    /\ ("phase2" \in faults /\ pc = "phase3") =>
          /\ metadata.phase2_error
          /\ tokens = <<>> /\ sentences = <<>>
    /\ ("phase2" \in faults /\ pc = "prepare") => "contextual_rescan" \in calls

\* an exception left analyze's code outside every phase try block
Escaped == "metrics" \in faults \/ "context" \in faults

\* C8: when an exception escapes all phase try blocks, analyze returns (it
\* does not raise) an envelope with status error that carries the markers
\* collected in context.detected_markers so far.
C8_EscapedExceptionGivesErrorEnvelope ==
    (Escaped /\ pc \in {"returned", "raised"}) =>
        /\ pc = "returned"
        /\ results.status = "error"
        /\ results.marker_count = results.partial_results

(***************************************************************************)
(* Properties of the result cache                                          *)
(***************************************************************************)
\* C9: when the cache holds a live entry under the key computed for
\* (schema_id, text) and the lookup does not fail, analyze returns that
\* envelope tagged from_cache = true and runs none of the phases: neither
\* the marker service nor the enricher is called.
C9_CacheHitShortCircuits ==
    (held.present /\ "cache_get" \notin faults) =>
        /\ pc = "returned"
        /\ results = [held.value EXCEPT !.from_cache = TRUE]
        /\ trace = <<>>
        /\ calls = {}

\* C9 witness: a call has returned the envelope an earlier call stored
C9_Witness ==
    /\ held.present /\ pc = "returned" /\ results.from_cache
    /\ results.request_id # GenerateRequestId(runs)
    /\ Len(results.markers) > 0 /\ trace = <<>>

\* C10: a success envelope is stored under the key that was looked up, so
\* a later analyze of the same (schema_id, text), made before the TTL has
\* passed and with no delete or clear in between, returns that envelope
\* with from_cache = true and the same markers; no envelope with status
\* error is ever in the cache.
C10_SuccessEnvelopeCached ==
    /\ (/\ pc = "returned" /\ results.status = "success"
        /\ ~results.from_cache /\ "cache_set" \notin faults) =>
          LET key == GenerateCacheKey(results.text, results.schema_id)
          IN /\ cache[key].present
             /\ cache[key].value = results
             /\ ~IsExpired(cache[key], now)
    /\ (expected.present /\ "cache_get" \notin faults) =>
          /\ pc = "returned"
          /\ results = [expected.env EXCEPT !.from_cache = TRUE]
          /\ results.markers = expected.env.markers
    /\ \A k \in Keys : cache[k].present => cache[k].value.status = "success"

\* C10 witness: a call made at the last moment of the TTL has returned the
\* envelope of an earlier call from the cache
C10_Witness ==
    /\ expected.present /\ now = expected.expires /\ now > 0
    /\ pc = "returned" /\ results.from_cache
    /\ Len(results.markers) > 0

(***************************************************************************)
(* Properties of the cache provider's failures                             *)
(***************************************************************************)
\* the markers a run leaves in the envelope when nothing is served from the
\* cache and no phase fails
MissMarkers(txt, sch, unavailable) ==
    LET initial == InitialScan(txt, sch)
    IN IF unavailable THEN initial
       ELSE MergeMarkers(initial, ContextualRescan(initial, Split(txt), sch))

CacheFailed == faults \cap {"cache_get", "cache_set"} # {}

\* C11: when the cache provider's get or set raises, analyze still runs
\* all phases and returns the envelope (status and markers) of a run whose
\* cache always misses; the failure neither reaches the caller as an
\* exception nor makes the envelope an error envelope.
C11_CacheFailureIsNonFatal ==
    (CacheFailed /\ ~Escaped) =>
        /\ pc # "raised"
        /\ pc # "except"
        /\ pc = "returned" =>
              /\ trace = <<1, 2, 3, 4>>
              /\ results.status = "success"
              /\ ~results.from_cache
              /\ results.markers =
                    MissMarkers(results.text, results.schema_id, NlpUnavailable)

\* C11 witness: a run whose lookup raised over a live entry and whose store
\* raised too has returned the markers of its own phases
C11_Witness ==
    /\ pc = "returned" /\ {"cache_get", "cache_set"} \subseteq faults
    /\ ~Escaped
    /\ cache[GenerateCacheKey(results.text, results.schema_id)].present
    /\ results.status = "success" /\ Len(results.markers) > 1

(***************************************************************************)
(* Properties of concurrent runs                                           *)
(***************************************************************************)
\* C12: concurrent analyze runs of one analyze_batch share no mutable state
\* but the marker store and the cache: the markers and the phase timings in
\* the envelope a run computed for its text were written by that run only.
C12_RunsShareNoMutableState ==
    \A r \in DOMAIN tasks :
        (tasks[r].pc = "done" /\ ~tasks[r].results.from_cache) =>
            /\ tasks[r].results.markers =
                  MissMarkers(tasks[r].text, schema_id, FALSE)
            /\ \A k \in DOMAIN tasks[r].performance_metrics :
                  tasks[r].performance_metrics[k] = r

(***************************************************************************)
(* Properties of the activation rules in the pipeline                      *)
(***************************************************************************)
\* the entries of a marker list that carry the id
WithId(markers, id) ==
    LET Is(m) == m.marker_id = id
    IN SelectSeq(markers, Is)

\* a confidence after the linguistic adjustments the tokens call for
Adjusted(confidence, toks) ==
    IF HasTokens(toks)
    THEN ApplyNlpEnhancements(Outcome(TRUE, confidence, <<>>), toks).confidence
    ELSE confidence

\* a run under schema s1 (where S_A, S_B and C_AB are defined) has returned
\* with the enricher available and no failure
CleanRunReturned ==
    /\ pc = "returned" /\ results.status = "success" /\ faults = {}
    /\ ~results.from_cache /\ results.nlp_enriched
    /\ results.schema_id = "s1"

\* what C13 says apart from the confidence of C_AB, which is c(tokens)
AllRuleScenario(c(_)) ==
    CleanRunReturned =>
        LET txt == Lower(results.text)
            initial == InitialScan(results.text, results.schema_id)
            cab == WithId(results.markers, C_AB)
        IN /\ IsPrefix(initial, results.markers)
           /\ Contains(txt, <<"a">>) => S_A \in Ids(initial)
           /\ Contains(txt, <<"b">>) => S_B \in Ids(initial)
           /\ IF {S_A, S_B} \subseteq Ids(initial)
              THEN /\ Len(cab) = 1
                   /\ cab[1].detection_phase = "contextual"
                   /\ cab[1].components = <<S_A, S_B>>
                   /\ cab[1].confidence = c(Split(results.text))
              ELSE cab = <<>>

\* C13: for a text containing literal examples of S_A and S_B, with
\* C_AB = {composed_of: [S_A, S_B], activation: {type: ALL}} defined and
\* the enricher available, phase 1 detects S_A and S_B and phase 3 adds
\* C_AB with detection_phase contextual, components [S_A, S_B] and the
\* confidence 0.9 after the linguistic adjustments of the tokens (0.9 when
\* no adjustment applies); with only one of S_A, S_B detected C_AB is not
\* activated and not added.
C13_AllRuleEndToEnd ==
    LET c(toks) == Adjusted(Conf(90), toks)
    IN AllRuleScenario(c)

\* C13 as stated: the confidence of C_AB is 0.9 whatever the text
C13_AsStated ==
    LET c(toks) == Conf(90)
    IN AllRuleScenario(c)

\* C13 witness: the text "A b ?" has given C_AB the confidence 0.81
C13_Witness ==
    /\ CleanRunReturned
    /\ results.text = <<"A", " ", "b", " ", "?">>
    /\ \E i \in DOMAIN results.markers :
          /\ results.markers[i].marker_id = C_AB
          /\ results.markers[i].confidence = Conf(81)
          /\ results.markers[i].components = <<S_A, S_B>>

(***************************************************************************)
(* Properties of the activation rules                                      *)
(***************************************************************************)
\* a check_activation call has returned for a marker whose rule type is t
Checked(t) ==
    /\ checked_marker # NoMarker
    /\ ~DefaultRule(checked_marker)
    /\ Upper(Get(checked_marker.activation, "type", "ALL")) = t

\* the components of the checked marker that are among the detected ids
Found == FoundComponents(checked_marker, checked_ids)

\* the token positions at which the matched examples of the found
\* components occur
LocatedPositions ==
    UNION {Range(Occurrences(tokens, Split(Lower(e)))) :
              e \in UNION {Range(detected_markers[i].examples_matched) :
                              i \in {j \in DOMAIN detected_markers :
                                       detected_markers[j].marker_id
                                           \in Range(Found)}}}

\* the greatest distance between two of these positions
PairwiseDistance ==
    IF LocatedPositions = {} THEN 0
    ELSE MaxOf({p - q : p, q \in LocatedPositions})

ProximityConfidence(distance, max_distance) ==
    Max(Conf(50), Conf(90) - (Conf(40) * distance) \div max_distance)

NegationNear(window) ==
    \E p \in LocatedPositions, i \in 0..(Len(tokens) - 1) :
        /\ i >= p - window /\ i <= p + window
        /\ Lower(tokens[i + 1]) \in negation_words

AllFound == Len(Found) = Len(checked_marker.composed_of[1])

\* C15: NEGATION rule: with allow_negation = false the marker activates iff
\* all components of composed_of are detected and no negation token lies
\* within negation_window tokens of a component occurrence; for either
\* setting the confidence is 0.9 (0.7 when a negation is tolerated) when
\* activated and 0.0 whenever the outcome is not activated.
C15_NegationRule ==
    Checked("NEGATION") =>
        LET allow_negation ==
                Get(checked_marker.activation, "allow_negation", FALSE)
            negated ==
                NegationNear(Get(checked_marker.activation,
                                 "negation_window", 3))
        IN /\ ~allow_negation =>
                 (rule_result.activated <=> (AllFound /\ ~negated))
           /\ rule_result.activated =>
                 rule_result.confidence =
                     IF allow_negation /\ negated THEN Conf(70) ELSE Conf(90)
           /\ ~rule_result.activated => rule_result.confidence = 0

\* the token positions at which the matched examples of one component occur
PositionsOf(id) ==
    UNION {Range(Occurrences(tokens, Split(Lower(e)))) :
              e \in UNION {Range(detected_markers[i].examples_matched) :
                              i \in {j \in DOMAIN detected_markers :
                                       detected_markers[j].marker_id = id}}}

\* the found components that are located in the tokens
Located == {id \in Range(Found) : PositionsOf(id) # {}}

\* b is the located component that follows a when the components are put
\* in the order of their spans (first position, then last position)
SpanFollows(a, b) ==
    LET k == Len(tokens) + 1
        Span(id) == MinOf(PositionsOf(id)) * k + MaxOf(PositionsOf(id))
    IN /\ Span(a) < Span(b)
       /\ ~\E c \in Located : Span(a) < Span(c) /\ Span(c) < Span(b)

\* a token of the conjunction lexicon lies between the spans of two
\* position-consecutive located components
ConjunctionBetween ==
    \E a, b \in Located :
        /\ SpanFollows(a, b)
        /\ \E i \in 0..(Len(tokens) - 1) :
              /\ MaxOf(PositionsOf(a)) < i /\ i < MinOf(PositionsOf(b))
              /\ Lower(tokens[i + 1]) \in conjunctions

ConjunctionChecked ==
    /\ Checked("PATTERN")
    /\ Get(checked_marker.activation, "pattern", "conjunction") = "conjunction"

SubruleOutcomes ==
    LET rules == Get(checked_marker.activation, "rules", <<>>)
    IN [i \in DOMAIN rules |->
           CheckActivation([checked_marker EXCEPT !.activation = rules[i]],
                           tokens, detected_markers, sentiment_scores,
                           checked_ids)]

\* C17: COMPOSITE rule: each subrule is evaluated as an independent
\* activation check of the same marker; with operator AND the outcome is
\* activated iff every subrule outcome is activated and its confidence is
\* the minimum of the subrule confidences, with operator OR it is activated
\* iff at least one subrule outcome is activated and its confidence is the
\* maximum of the subrule confidences.
C17_CompositeRule ==
    (Checked("COMPOSITE") /\ ~rule_result.raised) =>
        LET subs == SubruleOutcomes
            confidences == {subs[i].confidence : i \in DOMAIN subs}
        IN IF Get(checked_marker.activation, "operator", "AND") = "AND"
           THEN /\ rule_result.activated
                      <=> \A i \in DOMAIN subs : subs[i].activated
                /\ subs # <<>> =>
                      /\ rule_result.confidence \in confidences
                      /\ \A c \in confidences : rule_result.confidence <= c
           ELSE /\ rule_result.activated
                      <=> \E i \in DOMAIN subs : subs[i].activated
                /\ subs # <<>> =>
                      /\ rule_result.confidence \in confidences
                      /\ \A c \in confidences : rule_result.confidence >= c

\* C17 witness: an OR rule with one activated and one not activated subrule
\* is activated with the greater of the two confidences
C17_Witness ==
    /\ Checked("COMPOSITE")
    /\ Get(checked_marker.activation, "operator", "AND") = "OR"
    /\ Len(SubruleOutcomes) = 2
    /\ SubruleOutcomes[1].activated /\ ~SubruleOutcomes[2].activated
    /\ SubruleOutcomes[1].confidence > SubruleOutcomes[2].confidence
    /\ rule_result.activated
    /\ rule_result.confidence = SubruleOutcomes[1].confidence

\* the checked marker with another activation
WithActivation(activation) == [checked_marker EXCEPT !.activation = activation]

\* check_activation of the checked marker's context for another marker
Recheck(m) ==
    CheckActivation(m, tokens, detected_markers, sentiment_scores, checked_ids)

\* the rule of the checked marker defers to the ALL rule: its type has no
\* handler, or it is PATTERN with pattern = cause_effect
DefersToAll ==
    \/ Checked("FOO")
    \/ /\ Checked("PATTERN")
       /\ Get(checked_marker.activation, "pattern", "conjunction")
             = "cause_effect"

\* C18: check_activation with an unknown activation type, and with type
\* PATTERN and pattern = cause_effect, raises no error and returns the
\* activated flag, confidence and components of check_activation of the
\* same marker with activation type ALL.
C18_FallbackEqualsAllRule ==
    DefersToAll =>
        LET all == Recheck(WithActivation([type |-> "ALL"]))
        IN /\ ~outcome.raised
           /\ outcome.activated = all.activated
           /\ outcome.confidence = all.confidence
           /\ outcome.components = all.components

\* C18 witness: a cause_effect pattern over a question has returned the
\* adjusted confidence of the ALL rule
C18_Witness ==
    /\ Checked("PATTERN") /\ DefersToAll
    /\ outcome.activated /\ outcome.confidence = Conf(81)
    /\ Len(outcome.components) = 3

\* the linguistic adjustments the tokens call for, and the confidence they
\* make of c
QuestionContext == tokens[Len(tokens)] = <<"?">>
Uncertain == \E i \in DOMAIN tokens : Lower(tokens[i]) \in uncertainty_markers
Emphatic == \E i \in DOMAIN tokens : Lower(tokens[i]) \in emphasis_markers

AdjustedOnce(c) ==
    LET q == IF QuestionContext THEN (c * 9) \div 10 ELSE c
        u == IF Uncertain THEN (q * 85) \div 100 ELSE q
    IN IF Emphatic THEN Min(Conf(100), (u * 11) \div 10) ELSE u

AdjustmentsDue ==
    (IF QuestionContext THEN <<"question_context">> ELSE <<>>)
    \o (IF Uncertain THEN <<"uncertainty_markers">> ELSE <<>>)
    \o (IF Emphatic THEN <<"emphasis_markers">> ELSE <<>>)

\* C19: whenever check_activation returns an activated outcome and
\* ctx.tokens is present, the linguistic adjustments have been applied
\* exactly once to the rule's confidence (x0.9 for a final '?', x0.85 for an
\* uncertainty token, x1.1 capped at 1.0 for an emphasis token),
\* details.nlp_adjustments records them and nlp_enhanced is true; when the
\* outcome is not activated or tokens are absent, no adjustment is applied.
C19_AdjustmentsAppliedOnce ==
    (checked_marker # NoMarker /\ ~outcome.raised) =>
        IF outcome.activated /\ HasTokens(tokens)
        THEN /\ outcome.confidence = AdjustedOnce(rule_result.confidence)
             /\ outcome.nlp_adjustments = Some(AdjustmentsDue)
             /\ outcome.nlp_enhanced
        ELSE /\ outcome.confidence = rule_result.confidence
             /\ outcome.nlp_adjustments = Nil

(***************************************************************************)
(* Range of the confidences                                                *)
(***************************************************************************)
InUnit(confidence) == confidence >= 0 /\ confidence <= Conf(100)

AllInUnit(markers) ==
    \A i \in DOMAIN markers : InUnit(GetConfidence(markers[i]))

\* C20: every outcome check_activation returns, for each of the nine rule
\* types and every parameter value, and every marker the initial scan, the
\* contextual rescan and the merge put into detected_markers has a
\* confidence within [0, 1].
C20_ConfidenceInUnitInterval ==
    /\ (checked_marker # NoMarker /\ ~outcome.raised) =>
          /\ InUnit(outcome.confidence)
          /\ InUnit(rule_result.confidence)
    /\ AllInUnit(detected_markers)
    /\ \A txt \in Texts, sch \in Schemas \ {None} :
          LET initial == InitialScan(txt, sch)
              contextual == ContextualRescan(initial, Split(txt), sch)
          IN /\ AllInUnit(initial)
             /\ AllInUnit(contextual)
             /\ AllInUnit(MergeMarkers(initial, contextual))

\* C20 witness: the emphasis adjustment of a conjunction pattern's 0.95 has
\* been capped at 1.0
C20_Witness ==
    /\ Checked("PATTERN") /\ outcome.activated
    /\ rule_result.confidence = Conf(95) /\ Emphatic
    /\ outcome.confidence = Conf(100)

(***************************************************************************)
(* Properties of initial_scan                                              *)
(***************************************************************************)
\* the scan of the drawn documents has been made
Scanned == pc \in {"rescan", "scanned"}

\* the examples of a document that occur in the text, letter case aside
MatchingExamples(doc) ==
    LET Occurs(e) == Contains(Lower(text), Lower(e))
    IN SelectSeq(doc.examples, Occurs)

SomePatternMatches(doc) ==
    \E i \in DOMAIN doc.pattern : Contains(Lower(text), Lower(doc.pattern[i]))

SomeSignalOccurs(doc) ==
    \E i \in DOMAIN doc.signal : Contains(Lower(text), Lower(doc.signal[i]))

\* how many patterns of a document match the text
MatchingPatterns(doc) ==
    Cardinality({i \in DOMAIN doc.pattern :
                    Contains(Lower(text), Lower(doc.pattern[i]))})

\* the entries initial_scan returned for a document
Emitted(doc) ==
    LET Own(m) == m.marker_id = doc._id
    IN SelectSeq(detected_markers, Own)

\* min(1, 0.3 x matching examples), plus 0.4 capped at 1 with a pattern
StatedConfidence(doc) ==
    LET base == Min(Conf(100), Conf(30) * Len(MatchingExamples(doc)))
    IN IF SomePatternMatches(doc) THEN Min(Conf(100), base + Conf(40))
       ELSE base

\* the contract of one document that is evaluated without an exception
ScanContract(doc) ==
    /\ Len(Emitted(doc)) =
          (IF \/ MatchingExamples(doc) # <<>>
              \/ SomePatternMatches(doc)
              \/ SomeSignalOccurs(doc)
           THEN 1 ELSE 0)
    /\ \A i \in DOMAIN Emitted(doc) :
          /\ Emitted(doc)[i].confidence = StatedConfidence(doc)
          /\ Emitted(doc)[i].examples_matched = MatchingExamples(doc)

\* C21: initial_scan emits an A_/S_ marker exactly when an example occurs
\* in the text (letter case aside), a pattern matches or a frame signal
\* occurs; its confidence is min(1, 0.3 x matching examples), raised by 0.4
\* and capped at 1 when a pattern matched, and examples_matched lists
\* exactly the matching examples
C21_InitialScanContract ==
    Scanned =>
        \A k \in DOMAIN atomic_docs :
           ~ScanRaises(atomic_docs[k], text) => ScanContract(atomic_docs[k])

(***************************************************************************)
(* Properties of the per-marker except clauses                             *)
(***************************************************************************)
\* a list without its k-th entry
Without(list, k) ==
    [i \in 1..(Len(list) - 1) |-> IF i < k THEN list[i] ELSE list[i + 1]]

\* the evaluation of a C_/MM_ document raises: Marker() refuses it,
\* composed_of is None, or the rule handler raises
RescanRaises(doc) ==
    \/ ~ValidMarker(doc)
    \/ doc.composed_of = Nil
    \/ CheckActivation(doc, tokens, detected_markers, Nil,
                       Ids(detected_markers)).raised

\* C22: an exception raised while one marker definition is evaluated, in
\* initial_scan or in contextual_rescan, is caught for that marker only: the
\* marker is not in the returned list, and the list is the one the scan
\* returns for the same definitions without the failing one
C22_MarkerErrorsIsolated ==
    /\ Scanned =>
          \A k \in DOMAIN atomic_docs :
             ScanRaises(atomic_docs[k], text) =>
                /\ atomic_docs[k]._id \notin Ids(detected_markers)
                /\ detected_markers =
                      InitialScanLoop(Without(atomic_docs, k), text, 1)
    /\ pc = "scanned" =>
          \A k \in DOMAIN complex_docs :
             RescanRaises(complex_docs[k]) =>
                /\ complex_docs[k]._id \notin Ids(activated_markers[1])
                /\ activated_markers[1] =
                      ContextualRescanLoop(Without(complex_docs, k), tokens,
                                           detected_markers, 1)

\* both scans met a failing definition ahead of one that fired: a pattern
\* re.search refuses, then a marker without composed_of
C22_Witness ==
    /\ pc = "scanned"
    /\ Len(atomic_docs) = 2 /\ Len(complex_docs) = 2
    /\ atomic_docs[1]._id = S_RE /\ ScanRaises(atomic_docs[1], text)
    /\ Ids(detected_markers) = {atomic_docs[2]._id}
    /\ complex_docs[1]._id = C_NONE /\ RescanRaises(complex_docs[1])
    /\ Ids(activated_markers[1]) = {complex_docs[2]._id}

(***************************************************************************)
(* Properties of contextual_rescan                                         *)
(***************************************************************************)
\* the orders in which the store may return the same documents
Orders(docs) ==
    {order \in [1..Len(docs) -> Range(docs)] : Range(order) = Range(docs)}

\* the ids a rescan of the documents in a given order activates
ActivatedIn(order) ==
    Ids(ContextualRescanLoop(order, tokens, detected_markers, 1))

\* a document is activated when checked on its own against the ids the
\* context holds when the rescan starts
ActivatedAlone(doc) ==
    /\ ~RescanRaises(doc)
    /\ CheckActivation(doc, tokens, detected_markers, Nil,
                       Ids(detected_markers)).activated

\* C26: contextual_rescan checks every C_/MM_ marker against the ids of
\* all markers the context holds when the rescan starts, atomic and signal
\* alike; a marker activated earlier in the rescan is not among them and
\* the context is left as it was, so the set of activated markers is the
\* same for every order of the definitions
C26_RescanIndependentOfOrder ==
    pc = "scanned" =>
        /\ Ids(activated_markers[1]) =
              {complex_docs[k]._id : k \in {j \in DOMAIN complex_docs :
                                               ActivatedAlone(complex_docs[j])}}
        /\ \A order \in Orders(complex_docs) :
              ActivatedIn(order) = Ids(activated_markers[1])

\* C_AB was activated ahead of MM_C, which is composed of it, and MM_C was
\* not
C26_Witness ==
    /\ pc = "scanned"
    /\ Len(complex_docs) = 2
    /\ complex_docs[1]._id = C_AB /\ complex_docs[2]._id = MM_C
    /\ Ids(activated_markers[1]) = {C_AB}

(***************************************************************************)
(* Properties of aggregate_events                                          *)
(***************************************************************************)
\* a call with a non-empty events list has returned or raised
Aggregated == pc = "aggregated" /\ agg_events # <<>>

\* the window in force: the marker's own values, else the type defaults
MessagesInForce ==
    IF agg_marker.window.messages # Nil THEN agg_marker.window.messages
    ELSE Defaults(default_config[1], agg_marker).messages

SecondsInForce ==
    IF agg_marker.window.seconds # Nil THEN agg_marker.window.seconds
    ELSE Defaults(default_config[1], agg_marker).seconds

\* the last n events in list order
LastEvents(n) ==
    [i \in 1..Min(n, Len(agg_events)) |->
        agg_events[Len(agg_events) - Min(n, Len(agg_events)) + i]]

\* the events the stated window leaves: the messages cut, then the seconds
\* cut over what survived it
StatedSurvivors ==
    LET NotOlder(e) == e.age <= SecondsInForce[1]
        cut == IF MessagesInForce # Nil THEN LastEvents(MessagesInForce[1])
               ELSE agg_events
    IN IF SecondsInForce # Nil THEN SelectSeq(cut, NotOlder) ELSE cut

\* C23: aggregate_events applies the window in a fixed order: with
\* window.messages = N it keeps the last N events in list order, so at
\* most N survive, then with window.seconds = S it drops the survivors
\* older than now - S; of events 4000, 30 and 10 seconds old under
\* messages 2 and seconds 60 exactly the last two survive
C23_WindowOrder ==
    Aggregated =>
        /\ MessagesInForce # Nil => Len(filtered) <= MessagesInForce[1]
        /\ filtered = StatedSurvivors

\* the scoring block in force for the aggregated marker
ScoringInForce == MergedScoring(agg_marker, default_config[1])

\* C30: for every event list and every marker with a non-zero threshold
\* aggregate_events returns a result without raising: {0, 0} for an empty
\* list, raw_score 0 when the window removes every event of a non-empty
\* list, also with decay configured, and a score not above a configured
\* max_score
C30_AggregateReturns ==
    (pc = "aggregated" /\ Opt(ScoringInForce.threshold, 1) # 0) =>
        /\ ~agg_result.raised
        /\ agg_events = <<>> => agg_result = Aggregate(0, 0)
        /\ filtered = <<>> => agg_result.raw_score = 0
        /\ ScoringInForce.max_score # Nil =>
               agg_result.score <= ScoringInForce.max_score[1] * Unit

(***************************************************************************)
(* Properties of the TEMPORAL rule                                         *)
(***************************************************************************)
\* the components of the checked marker located in the token stream
LocatedComponents ==
    {c \in Range(checked_marker.composed_of[1]) : PositionsOf(c) # {}}

\* every gap between adjacent located positions is within the window
GapsWithin(window) ==
    LET located == UNION {PositionsOf(c) : c \in LocatedComponents}
    IN \A p \in located :
          \A q \in located :
             (p < q /\ ~\E r \in located : p < r /\ r < q) => q - p <= window

\* the first occurrences follow composed_of and lie within the window
InOrderWithin(window) ==
    LET components == checked_marker.composed_of[1]
        First(i) == MinOf(PositionsOf(components[i]))
    IN /\ \A i \in DOMAIN components : PositionsOf(components[i]) # {}
       /\ \A i \in 1..(Len(components) - 1) :
             /\ First(i) <= First(i + 1)
             /\ First(i + 1) - First(i) <= window

\* C27: the TEMPORAL rule activates only when the components are located
\* in the token stream within the window: with strict_order every
\* component has a position, the first occurrences are non-decreasing in
\* composed_of order and each consecutive gap is <= window; without it at
\* least two distinct components are located and every gap between
\* adjacent located positions is <= window.  With no token data or no
\* located component the outcome is not activated with confidence 0.0
C27_TemporalRule ==
    Checked("TEMPORAL") =>
        LET window == Get(checked_marker.activation, "window", 10)
        IN /\ rule_result.activated =>
                 IF Get(checked_marker.activation, "strict_order", FALSE)
                 THEN InOrderWithin(window)
                 ELSE /\ Cardinality(LocatedComponents) >= 2
                      /\ GapsWithin(window)
           /\ (tokens = <<>> \/ LocatedComponents = {}) =>
                 /\ ~rule_result.raised
                 /\ ~rule_result.activated
                 /\ rule_result.confidence = 0

(***************************************************************************)
(* Properties of the cache key                                             *)
(***************************************************************************)
\* analyze has returned an envelope found under the key of its request
ServedFromCache == pc = "returned" /\ results # NoResult /\ results.from_cache

\* C28: two analyze requests are given the same cache key only if they
\* have the same schema_id (absent and present told apart) and the same
\* text, up to a collision of the text digest; hence a request never
\* receives a cached envelope computed under a different schema filter
C28_KeySeparatesSchemas ==
    ServedFromCache =>
        /\ results.schema_id = schema_id
        /\ Md5(results.text) = Md5(text)

(***************************************************************************)
(* Properties of the nlp_enriched flag                                     *)
(***************************************************************************)
\* analyze has returned the success envelope it assembled in this run
Assembled ==
    /\ pc = "returned" /\ results # NoResult
    /\ results.status = "success" /\ ~results.from_cache

\* C29: the envelope's nlp_enriched flag is true only if phase 2
\* completed (the enricher was available and enrich returned without
\* error); whenever phase 2 was skipped or recorded phase2_error the
\* envelope has nlp_enriched = false
C29_EnrichedOnlyIfCompleted ==
    Assembled =>
        /\ results.nlp_enriched =>
              /\ "enrich" \in calls /\ "phase2" \notin faults
              /\ ~results.phase2_error
        /\ ("enrich" \notin calls \/ results.phase2_error) =>
              ~results.nlp_enriched

(***************************************************************************)
(* Properties of LayeredCache                                              *)
(***************************************************************************)
\* a get that began after the write g.after had completed, with no set or
\* delete running before it returned, neither write overlapping another
\* and no Redis command of either ending in an error
ReadsAfter(g) ==
    /\ g.op = "get" /\ g.pc = "done"
    /\ g.clean /\ ~g.failed
    /\ g.after.op # "none" /\ g.after.clean /\ ~g.after.failed

\* what such a get returns
ReadAfterWrite(g) ==
    LET w == g.after
    IN /\ w.op = "delete" => g.result = Nil
       /\ w.op = "set" =>
             /\ g.result \in {Nil, Some(w.value)}
             /\ (w.ttl = 0 \/ g.at < w.at + w.ttl) => g.result = Some(w.value)
             /\ (w.ttl # 0 /\ g.at > w.at + w.ttl) => g.result = Nil

\* C25: LayeredCache gives per-key read-after-write consistency under any
\* interleaving of get, set and delete on one key: a get that starts
\* after set(k, v) has completed, with no later set or delete, returns
\* v; a get that starts after delete(k) has completed returns None; the
\* promotion inside get never leaves in L1 a value older than the last
\* completed set or delete, nor a value readable after its TTL has elapsed
C25_ReadAfterWrite ==
    pc = "layered" =>
        \A i \in DOMAIN cache_ops :
           ReadsAfter(cache_ops[i]) => ReadAfterWrite(cache_ops[i])

(***************************************************************************)
(* Termination of analyze                                                  *)
(***************************************************************************)
\* the call is inside a phase, the result assembly or the except clause
InPhase == pc \in {"phase1", "phase2", "phase3", "prepare", "except"}

\* the call has returned a result envelope
Finalized == pc = "returned" /\ results # NoResult

\* C24: every analyze run eventually returns a result envelope, provided
\* each external call returns or raises: no run is left in a phase and no
\* run ends without an envelope
C24_EveryRunReturnsEnvelope ==
    /\ [](pc # "raised")
    /\ InPhase ~> Finalized

====
